---- MODULE Spec2Model ----
(***************************************************************************)
(* EVA Checkout: the quote -> order pipeline of the eva-checkout plugin    *)
(* (EVA_Coupon_Handler, EVA_Quote_Handler, EVA_Order_Handler).             *)
(*                                                                         *)
(* Numbers.  PHP floats that hold amounts of money in major units are      *)
(* modelled as integers counting 1/Den of a major unit ("fine units"), so  *)
(* that a percentage of an amount of whole minor units is exact.  Strings  *)
(* that hold an integer count of minor units ("2000") are modelled as that *)
(* integer.  The two conversions between them, format_price and the        *)
(* (float) cast, are modelled by what they compute.                        *)
(***************************************************************************)
EXTENDS Integers, Sequences, FiniteSets, TLC

VARIABLES
    now,          \* time(), in seconds
    products,     \* the catalog: id -> product row (wc_get_product)
    tax_enabled,  \* wc_tax_enabled()
    transients,   \* set_transient store: quote id -> stored quote data
    next_quote,   \* number of quote ids generated so far
    qin,          \* the create_quote request under study
    qout,         \* what the last create_quote call returned
    orders,       \* the order table: order id -> order row
    call,         \* per PHP worker: the create_order call it is serving
    ncalls,       \* create_order calls started so far
    nchanges,     \* back-office changes made so far
    gout,         \* what the last GET /quote/{id} returned
    rin,          \* the REST request under study (coupon validation, permission)
    rout,         \* the response to rin
    permit,       \* what the permission callback returned for rin
    cache,        \* the terminal client's Cache: its items and its mutex
    gos,          \* per goroutine: the Cache call it is making
    hist,         \* history of the Cache: the last Set of each key, calls made
    ui            \* the terminal client's Model: view state and local cart

\* the request under study, its response and its permission: no handler of
\* the quote -> order pipeline reads or writes them
\* the terminal client, which no handler of the shop reads or writes
client == <<cache, gos, hist, ui>>

aside == <<rin, rout, permit, client>>

vars == <<now, products, tax_enabled, transients, next_quote, qin, qout,
          orders, call, ncalls, nchanges, gout, aside>>

\* no terminal client is running
ClientIdle ==
    /\ cache = <<>>
    /\ gos = <<>>
    /\ hist = <<>>
    /\ ui = <<>>

\* ------------------------------------------------------------------ bounds
MaxItems == 2      \* lines in a quote request
MaxQty == 2        \* quantity of one line
MaxCoupons == 2    \* coupon codes in a quote request
MaxStock == 2      \* stock quantity of a product
MaxQuotes == 1     \* quotes issued in one behaviour
MaxCalls == 2      \* REST calls on orders and stored quotes in one behaviour
MaxChanges == 1    \* back-office changes (stock, products) in one behaviour
MaxTicks == 2      \* clock steps in one behaviour

\* --------------------------------------------------------------- constants
QUOTE_TTL == 900

\* wc_get_price_decimals(): the shop's price precision
Decimals == 2

\* pow( 10, $decimals )
Multiplier == 10 ^ Decimals

\* fine units per major unit: the resolution of the modelled floats
Den == Multiplier * 100

NoValue == <<>>    \* PHP null / false / empty array

\* PHP_INT_MAX, as the largest integer of the model
PHP_INT_MAX == 2147483647

\* ------------------------------------------------------------------- money
Abs(n) == IF n < 0 THEN -n ELSE n

\* PHP round(): n/d to the nearest integer, halves away from zero
Round(n, d) ==
    IF n >= 0 THEN (2 * n + d) \div (2 * d)
    ELSE -((2 * (-n) + d) \div (2 * d))

\* round( $x, wc_get_price_decimals() ): a float rounded to whole minor units
RoundToDecimals(x) == Round(x, Den \div Multiplier) * (Den \div Multiplier)

\* (string) round( $price * $multiplier ): a float of major units to a
\* minor-unit string
format_price(price) == Round(price, Den \div Multiplier)

\* (float) $string: a numeric string read as a float; the number it spells
\* becomes that many major units
FloatCast(s) == s * Den

\* (float) of a catalog price or coupon amount given in minor units
FloatOfMinor(m) == m * (Den \div Multiplier)

Min(a, b) == IF a < b THEN a ELSE b

\* a * b / d for a, b >= 0, computed without a large intermediate product
MulDiv(a, b, d) == (a \div d) * b + ((a % d) * b) \div d

RECURSIVE SumSeq(_)
SumSeq(s) == IF s = <<>> THEN 0 ELSE Head(s) + SumSeq(Tail(s))

\* ---------------------------------------------------------- coupon handler
\* The coupon records of the back-office, by normalized code.  id 0: no such
\* coupon (WC_Coupon::get_id() of an unknown code).  Amounts are floats.
NoCoupon ==
    [id |-> 0, status |-> "publish", date_expires |-> NoValue,
     usage_limit |-> 0, usage_count |-> 0,
     minimum_amount |-> 0, maximum_amount |-> 0,
     product_ids |-> {}, excluded_product_ids |-> {},
     product_categories |-> {}, excluded_product_categories |-> {},
     discount_type |-> "fixed_cart", amount |-> 0, free_shipping |-> FALSE]

\* a coupon that fails every check it can fail at once: expired, used up,
\* a minimum above its maximum, and for a product the shop does not sell
BadCoupon ==
    [NoCoupon EXCEPT !.date_expires = <<QUOTE_TTL \div 2>>,
                     !.usage_limit = 1, !.usage_count = 1,
                     !.minimum_amount = 30 * Den, !.maximum_amount = 15 * Den,
                     !.product_ids = {9}, !.amount = 5 * Den]

CouponCodes ==
    {"save10", "all100", "five", "perunit", "draft", "old", "used",
     "big", "small", "only9", "capped",
     "bad_draft", "bad_used", "bad_spend",
     "due", "pct5", "cat20", "nocat10", "cat10no2"}

\* the record of one stored code
CouponRecord(c) ==
        CASE c = "save10"  -> [NoCoupon EXCEPT !.id = 1, !.discount_type = "percent",
                                               !.amount = 10 * Den]
          [] c = "all100"  -> [NoCoupon EXCEPT !.id = 2, !.discount_type = "percent",
                                               !.amount = 100 * Den]
          [] c = "five"    -> [NoCoupon EXCEPT !.id = 3, !.amount = 5 * Den]
          [] c = "perunit" -> [NoCoupon EXCEPT !.id = 4, !.discount_type = "fixed_product",
                                               !.amount = 1 * Den,
                                               !.excluded_product_ids = {2}]
          [] c = "draft"   -> [NoCoupon EXCEPT !.id = 5, !.status = "draft",
                                               !.amount = 5 * Den]
          [] c = "old"     -> [NoCoupon EXCEPT !.id = 6, !.date_expires = <<QUOTE_TTL \div 2>>,
                                               !.discount_type = "percent",
                                               !.amount = 10 * Den]
          [] c = "used"    -> [NoCoupon EXCEPT !.id = 7, !.usage_limit = 1,
                                               !.usage_count = 1, !.amount = 5 * Den]
          [] c = "big"     -> [NoCoupon EXCEPT !.id = 8, !.minimum_amount = 30 * Den,
                                               !.amount = 5 * Den]
          [] c = "small"   -> [NoCoupon EXCEPT !.id = 9, !.maximum_amount = 15 * Den,
                                               !.discount_type = "percent",
                                               !.amount = 50 * Den]
          [] c = "only9"   -> [NoCoupon EXCEPT !.id = 10, !.product_ids = {9},
                                               !.amount = 5 * Den]
          [] c = "capped"  -> [NoCoupon EXCEPT !.id = 11, !.maximum_amount = 50 * Den,
                                               !.discount_type = "percent",
                                               !.amount = 50 * Den]
          [] c = "bad_draft" -> [BadCoupon EXCEPT !.id = 12, !.status = "draft"]
          [] c = "bad_used"  -> [BadCoupon EXCEPT !.id = 13]
          [] c = "bad_spend" -> [BadCoupon EXCEPT !.id = 14, !.usage_limit = 0]
          [] c = "due"     -> [NoCoupon EXCEPT !.id = 15, !.date_expires = <<QUOTE_TTL>>,
                                               !.discount_type = "percent",
                                               !.amount = 10 * Den]
          [] c = "pct5"    -> [NoCoupon EXCEPT !.id = 16, !.discount_type = "percent",
                                               !.amount = 5 * Den]
          [] c = "cat20"   -> [NoCoupon EXCEPT !.id = 17, !.discount_type = "fixed_product",
                                               !.amount = 1 * Den,
                                               !.product_categories = {20}]
          [] c = "nocat10" -> [NoCoupon EXCEPT !.id = 18, !.discount_type = "fixed_product",
                                               !.amount = 1 * Den,
                                               !.excluded_product_categories = {10}]
          [] c = "cat10no2" -> [NoCoupon EXCEPT !.id = 19, !.discount_type = "fixed_product",
                                               !.amount = 1 * Den,
                                               !.product_categories = {10},
                                               !.excluded_product_ids = {2}]

CouponDB == [c \in CouponCodes |-> CouponRecord(c)]

\* The coupon codes a request may carry: the stored codes, one of them in
\* upper case, and a code no coupon has.
Codes == CouponCodes \cup {"SAVE10", "nosuch"}

\* wc_format_coupon_code(): the code in its stored (lower-case) form
wc_format_coupon_code(code) == IF code = "SAVE10" THEN "save10" ELSE code

\* new WC_Coupon( $code )
WC_Coupon(code) == IF code \in CouponCodes THEN CouponRecord(code) ELSE NoCoupon

\* wc_get_product_cat_ids( $product_id )
wc_get_product_cat_ids(catalog, product_id) ==
    IF product_id \in DOMAIN catalog THEN catalog[product_id].cats ELSE {}

invalid_result(code, reason) ==
    [code |-> code, valid |-> FALSE, discount |-> 0, reason |-> reason]

valid_result(code, coupon, discount) ==
    [code |-> code, valid |-> TRUE,
     discount |-> Round(discount, Den \div Multiplier),
     discount_type |-> coupon.discount_type,
     amount |-> coupon.amount,
     free_shipping |-> coupon.free_shipping]

\* absint() of an item field
absint(n) == Abs(n)

\* a pass of the loop that looks at the include lists only
LineAllowedExcludedToo(coupon, catalog, item) ==
    LET product_id == absint(item.product_id)
        variation_id == absint(item.variation_id)
    IN  /\ product_id # 0
        /\ \/ /\ coupon.product_ids # {}
              /\ \/ product_id \in coupon.product_ids
                 \/ variation_id \in coupon.product_ids
           \/ /\ coupon.product_categories # {}
              /\ wc_get_product_cat_ids(catalog, product_id)
                    \cap coupon.product_categories # {}

\* One pass of the loop of check_product_restrictions over a line: TRUE when
\* the line sets $has_valid_product.
LineAllowed(coupon, catalog, item) ==
    LET product_id == absint(item.product_id)
        variation_id == absint(item.variation_id)
    IN  /\ product_id # 0
        /\ ~ (/\ coupon.excluded_product_ids # {}
              /\ \/ product_id \in coupon.excluded_product_ids
                 \/ variation_id \in coupon.excluded_product_ids)
        /\ ~ (/\ coupon.excluded_product_categories # {}
              /\ wc_get_product_cat_ids(catalog, product_id)
                    \cap coupon.excluded_product_categories # {})
        /\ \/ /\ coupon.product_ids # {}
              /\ \/ product_id \in coupon.product_ids
                 \/ variation_id \in coupon.product_ids
           \/ /\ coupon.product_categories # {}
              /\ wc_get_product_cat_ids(catalog, product_id)
                    \cap coupon.product_categories # {}

\* TRUE when the restriction check passes, FALSE for coupon_not_applicable
check_product_restrictions(coupon, catalog, line_items) ==
    IF coupon.product_ids = {} /\ coupon.product_categories = {}
    THEN TRUE
    ELSE \E i \in 1..Len(line_items) : LineAllowed(coupon, catalog, line_items[i])

RECURSIVE calculate_fixed_product_discount(_, _)
calculate_fixed_product_discount(coupon, line_items) ==
    IF line_items = <<>> THEN 0
    ELSE LET item == Head(line_items)
             product_id == absint(item.product_id)
             variation_id == absint(item.variation_id)
             quantity == absint(item.quantity)
             skip == \/ product_id \in coupon.excluded_product_ids
                     \/ variation_id \in coupon.excluded_product_ids
                     \/ /\ coupon.product_ids # {}
                        /\ product_id \notin coupon.product_ids
                        /\ variation_id \notin coupon.product_ids
         IN  (IF skip THEN 0 ELSE coupon.amount * quantity)
             + calculate_fixed_product_discount(coupon, Tail(line_items))

\* The discount as a float of major units, rounded to the price decimals
calculate_discount(coupon, line_items, cart_total) ==
    LET discount ==
            CASE coupon.discount_type = "percent" ->
                     MulDiv(cart_total, coupon.amount \div 100, Den)
              [] coupon.discount_type = "fixed_cart" ->
                     Min(coupon.amount, cart_total)
              [] coupon.discount_type = "fixed_product" ->
                     calculate_fixed_product_discount(coupon, line_items)
              [] OTHER -> 0
        max_discount == coupon.maximum_amount
        capped == IF max_discount > 0 /\ discount > max_discount
                  THEN max_discount ELSE discount
    IN  RoundToDecimals(capped)

\* validate_coupon with the two spend checks made before the usage check
validate_coupon_spend_first(code0, line_items, cart_total, catalog, t) ==
    LET code == wc_format_coupon_code(code0)
        coupon == WC_Coupon(code)
    IN  IF coupon.id = 0 THEN invalid_result(code, "coupon_not_found")
        ELSE IF coupon.status # "publish" THEN invalid_result(code, "coupon_disabled")
        ELSE IF coupon.date_expires # NoValue /\ coupon.date_expires[1] < t
             THEN invalid_result(code, "coupon_expired")
        ELSE IF coupon.minimum_amount > 0 /\ cart_total < coupon.minimum_amount
             THEN invalid_result(code, "coupon_min_spend")
        ELSE IF coupon.maximum_amount > 0 /\ cart_total > coupon.maximum_amount
             THEN invalid_result(code, "coupon_max_spend")
        ELSE IF coupon.usage_limit > 0 /\ coupon.usage_count >= coupon.usage_limit
             THEN invalid_result(code, "coupon_usage_limit")
        ELSE IF ~ check_product_restrictions(coupon, catalog, line_items)
             THEN invalid_result(code, "coupon_not_applicable")
        ELSE valid_result(code, coupon,
                          calculate_discount(coupon, line_items, cart_total))

validate_coupon(code0, line_items, cart_total, catalog, t) ==
    LET code == wc_format_coupon_code(code0)
        coupon == WC_Coupon(code)
    IN  IF coupon.id = 0 THEN invalid_result(code, "coupon_not_found")
        ELSE IF coupon.status # "publish" THEN invalid_result(code, "coupon_disabled")
        ELSE IF coupon.date_expires # NoValue /\ coupon.date_expires[1] < t
             THEN invalid_result(code, "coupon_expired")
        ELSE IF coupon.usage_limit > 0 /\ coupon.usage_count >= coupon.usage_limit
             THEN invalid_result(code, "coupon_usage_limit")
        ELSE IF coupon.minimum_amount > 0 /\ cart_total < coupon.minimum_amount
             THEN invalid_result(code, "coupon_min_spend")
        ELSE IF coupon.maximum_amount > 0 /\ cart_total > coupon.maximum_amount
             THEN invalid_result(code, "coupon_max_spend")
        ELSE IF ~ check_product_restrictions(coupon, catalog, line_items)
             THEN invalid_result(code, "coupon_not_applicable")
        ELSE valid_result(code, coupon,
                          calculate_discount(coupon, line_items, cart_total))

\* every code validated against what the valid codes before it leave of
\* the cart total
RECURSIVE validate_coupons_in_sequence(_, _, _, _, _)
validate_coupons_in_sequence(coupon_codes, line_items, cart_total, catalog, t) ==
    IF coupon_codes = <<>> THEN <<>>
    ELSE LET validation == validate_coupon(Head(coupon_codes), line_items,
                                           cart_total, catalog, t)
             left == IF validation.valid
                     THEN cart_total - FloatOfMinor(validation.discount)
                     ELSE cart_total
         IN  <<validation>>
             \o validate_coupons_in_sequence(Tail(coupon_codes), line_items,
                                             IF left < 0 THEN 0 ELSE left, catalog, t)

\* the foreach over the coupon codes of create_quote: every code is
\* validated against the lines and the cart total
validate_coupons(coupon_codes, line_items, cart_total, catalog, t) ==
    [i \in 1..Len(coupon_codes) |->
        validate_coupon(coupon_codes[i], line_items, cart_total, catalog, t)]

\* ----------------------------------------------------------- quote handler
ProductIds == {1, 2}

\* wc_get_product( $id ): the product row, or NoValue when there is none
wc_get_product(catalog, id) ==
    IF id \in DOMAIN catalog /\ catalog[id].exists THEN catalog[id] ELSE NoValue

\* $item['variation_id'] ? wc_get_product( variation_id ) : wc_get_product( product_id )
ProductOf(catalog, variation_id, product_id) ==
    IF variation_id # 0 THEN wc_get_product(catalog, variation_id)
    ELSE wc_get_product(catalog, product_id)

\* the stock verdict that forgets backorders
check_stock_no_backorders(product, quantity) ==
    LET available == product.stock_quantity
    IN  IF ~ product.manage_stock
        THEN [product_id |-> product.id,
              available |-> IF product.in_stock THEN PHP_INT_MAX ELSE 0,
              requested |-> quantity,
              ok |-> product.in_stock]
        ELSE [product_id |-> product.id,
              available |-> IF available = NoValue THEN 0 ELSE available[1],
              requested |-> quantity,
              ok |-> \/ available = NoValue
                     \/ available[1] >= quantity]

check_stock(product, quantity) ==
    LET available == product.stock_quantity
    IN  IF ~ product.manage_stock
        THEN [product_id |-> product.id,
              available |-> IF product.in_stock THEN PHP_INT_MAX ELSE 0,
              requested |-> quantity,
              ok |-> product.in_stock]
        ELSE [product_id |-> product.id,
              available |-> IF available = NoValue THEN 0 ELSE available[1],
              requested |-> quantity,
              ok |-> \/ available = NoValue
                     \/ available[1] >= quantity
                     \/ product.backorders]

\* the line resolution that turns away a line it cannot serve from stock
process_line_item_stock_checked(catalog, item) ==
    LET product_id == absint(item.product_id)
        variation_id == absint(item.variation_id)
        quantity == absint(item.quantity)
        product == ProductOf(catalog, variation_id, product_id)
    IN  IF product_id = 0 THEN [error |-> "eva_invalid_product"]
        ELSE IF product = NoValue THEN [error |-> "eva_product_not_found"]
        ELSE IF ~ product.purchasable THEN [error |-> "eva_product_not_purchasable"]
        ELSE IF ~ check_stock(product, quantity).ok THEN [error |-> "eva_out_of_stock"]
        ELSE [error |-> "",
              line_item |->
                  [product_id |-> product_id,
                   variation_id |-> variation_id,
                   quantity |-> quantity,
                   unit_price |-> FloatOfMinor(product.price),
                   line_total |-> FloatOfMinor(product.price) * quantity,
                   meta |-> item.meta,
                   tax_class |-> product.tax_class,
                   needs_shipping |-> product.needs_shipping],
              stock_status |-> check_stock(product, quantity)]

\* [error |-> code] or [error |-> "", line_item |-> ..., stock_status |-> ...]
process_line_item(catalog, item) ==
    LET product_id == absint(item.product_id)
        variation_id == absint(item.variation_id)
        quantity == absint(item.quantity)
        product == ProductOf(catalog, variation_id, product_id)
    IN  IF product_id = 0 THEN [error |-> "eva_invalid_product"]
        ELSE IF product = NoValue THEN [error |-> "eva_product_not_found"]
        ELSE IF ~ product.purchasable THEN [error |-> "eva_product_not_purchasable"]
        ELSE [error |-> "",
              line_item |->
                  [product_id |-> product_id,
                   variation_id |-> variation_id,
                   quantity |-> quantity,
                   unit_price |-> FloatOfMinor(product.price),
                   line_total |-> FloatOfMinor(product.price) * quantity,
                   meta |-> item.meta,
                   tax_class |-> product.tax_class,
                   needs_shipping |-> product.needs_shipping],
              stock_status |-> check_stock(product, quantity)]

\* WC_Shipping::calculate_shipping for a destination: the rates of the zone
\* of the country; a country in no zone gets none.
ShippingZoneRates(country) ==
    IF country = "US"
    THEN << [rate_id |-> "flat_rate:1", method_id |-> "flat_rate", instance_id |-> 1,
             label |-> "Flat rate", cost |-> format_price(5 * Den), tax |-> 0],
            [rate_id |-> "free_shipping:2", method_id |-> "free_shipping",
             instance_id |-> 2, label |-> "Free shipping", cost |-> 0, tax |-> 0] >>
    ELSE <<>>

calculate_shipping_rates(line_items, shipping_address) ==
    IF shipping_address = NoValue THEN <<>>
    ELSE IF \A i \in 1..Len(line_items) : ~ line_items[i].needs_shipping THEN <<>>
    ELSE ShippingZoneRates(shipping_address.country)

\* WC_Tax::find_rates: the percentage for a country and tax class
TaxRatePct(country, tax_class) ==
    IF tax_class = "zero-rate" THEN 0
    ELSE IF country = "US" THEN 5
    ELSE IF country = "IT" THEN 22
    ELSE 0

\* WC()->countries->get_base_country()
BaseCountry == "IT"

\* array_sum( WC_Tax::calc_tax( line_total, rates, FALSE ) ): prices are
\* entered exclusive of tax
ItemTax(line_item, country) ==
    (line_item.line_total * TaxRatePct(country, line_item.tax_class)) \div 100

calculate_taxes(line_items, shipping_address, taxOn) ==
    IF ~ taxOn THEN [total_tax |-> 0, line_taxes |-> <<>>]
    ELSE LET country == IF shipping_address = NoValue THEN BaseCountry
                        ELSE shipping_address.country
             line_taxes == [i \in 1..Len(line_items) |-> ItemTax(line_items[i], country)]
         IN  [total_tax |-> SumSeq(line_taxes), line_taxes |-> line_taxes]

\* the response lines built from the last raw line backwards
format_line_items_reversed(line_items, line_taxes) ==
    [i \in 1..Len(line_items) |->
        LET k == Len(line_items) + 1 - i
        IN  [product_id |-> line_items[k].product_id,
             variation_id |-> line_items[k].variation_id,
             quantity |-> line_items[k].quantity,
             unit_price |-> format_price(line_items[k].unit_price),
             line_total |-> format_price(line_items[k].line_total),
             line_tax |-> format_price(IF k \in DOMAIN line_taxes THEN line_taxes[k] ELSE 0),
             meta |-> line_items[k].meta]]

format_line_items_for_response(line_items, line_taxes) ==
    [i \in 1..Len(line_items) |->
        [product_id |-> line_items[i].product_id,
         variation_id |-> line_items[i].variation_id,
         quantity |-> line_items[i].quantity,
         unit_price |-> format_price(line_items[i].unit_price),
         line_total |-> format_price(line_items[i].line_total),
         line_tax |-> format_price(IF i \in DOMAIN line_taxes THEN line_taxes[i] ELSE 0),
         meta |-> line_items[i].meta]]

\* generate_quote_id(): the n-th id generated (ids never repeat)
generate_quote_id(n) == n

\* The body of create_quote up to the store write: [error |-> code], or
\* [error |-> "", quote |-> the response, data |-> what store_quote is given].
\* t is time() at line 585; n counts the ids generated before.
create_quote(data, catalog, taxOn, t, n) ==
    LET items == data.items
        results == [i \in 1..Len(items) |-> process_line_item(catalog, items[i])]
        failed == {i \in 1..Len(items) : results[i].error # ""}
        first == CHOOSE i \in failed : \A j \in failed : i <= j
        line_items == [i \in 1..Len(items) |-> results[i].line_item]
        stock_status == [i \in 1..Len(items) |-> results[i].stock_status]
        cart_total == SumSeq([i \in 1..Len(items) |-> line_items[i].line_total])
        coupon_codes == data.coupons
        coupons == validate_coupons(coupon_codes, line_items, cart_total, catalog, t)
        total_discount ==
            SumSeq([i \in 1..Len(coupons) |->
                       IF coupons[i].valid THEN FloatCast(coupons[i].discount) ELSE 0])
        shipping_address == data.shipping_address
        shipping_rates == calculate_shipping_rates(line_items, shipping_address)
        tax_result == calculate_taxes(line_items, shipping_address, taxOn)
        subtotal == cart_total
        tax == tax_result.total_tax
        quote ==
            [quote_id |-> generate_quote_id(n + 1),
             expires_at |-> t + QUOTE_TTL,
             line_items |-> format_line_items_for_response(line_items, tax_result.line_taxes),
             coupons |-> coupons,
             shipping_rates |-> shipping_rates,
             totals |-> [subtotal |-> format_price(subtotal),
                         discount |-> format_price(total_discount),
                         shipping |-> 0,
                         tax |-> format_price(tax),
                         total |-> format_price(subtotal - total_discount + tax)],
             stock_status |-> stock_status]
    IN  IF items = <<>> THEN [error |-> "eva_invalid_items"]
        ELSE IF failed # {} THEN [error |-> results[first].error]
        ELSE [error |-> "",
              quote |-> quote,
              data |-> [quote |-> quote,
                        line_items_raw |-> line_items,
                        shipping_address |-> shipping_address,
                        coupon_codes |-> coupon_codes,
                        customer_id |-> absint(data.customer_id)]]

\* the store that keeps every quote under one key: a write replaces what
\* was stored
store_quote_single_key(store, quote_id, data, t) ==
    [k \in {quote_id} |-> [value |-> data, timeout |-> t + QUOTE_TTL]]

\* set_transient( prefix . id, data, QUOTE_TTL ) after the product objects
\* are removed from the raw lines; t is time() inside set_transient.
store_quote(store, quote_id, data, t) ==
    LET raw == data.line_items_raw
        stripped == [i \in 1..Len(raw) |->
                        [product_id |-> raw[i].product_id,
                         variation_id |-> raw[i].variation_id,
                         quantity |-> raw[i].quantity,
                         unit_price |-> raw[i].unit_price,
                         line_total |-> raw[i].line_total,
                         meta |-> raw[i].meta,
                         tax_class |-> raw[i].tax_class]]
    IN  [k \in DOMAIN store \cup {quote_id} |->
            IF k = quote_id
            THEN [value |-> [data EXCEPT !.line_items_raw = stripped],
                  timeout |-> t + QUOTE_TTL]
            ELSE store[k]]

\* get_transient(): the values a read at time t may return.  An entry is
\* returned before its timeout and never after it; at the instant of the
\* timeout the transient back end decides (the options table still returns
\* it, an object cache may not).
retrieve_quote(store, quote_id, t) ==
    IF quote_id \notin DOMAIN store THEN {NoValue}
    ELSE IF t < store[quote_id].timeout THEN {store[quote_id].value}
    ELSE IF t = store[quote_id].timeout THEN {store[quote_id].value, NoValue}
    ELSE {NoValue}

\* the responses get_quote may give
get_quote(store, quote_id, t) ==
    {IF stored = NoValue THEN [error |-> "eva_quote_not_found", status |-> 404]
     ELSE [error |-> "", quote |-> stored.quote] :
        stored \in retrieve_quote(store, quote_id, t)}

\* the quote store that forgets nothing
keep_quote(store, quote_id) == store

\* delete_transient( prefix . id )
delete_quote(store, quote_id) ==
    [k \in DOMAIN store \ {quote_id} |-> store[k]]

\* ----------------------------------------------------------- order handler
Workers == {"w1", "w2"}

\* A worker that serves no call.  order_id is the order the call has
\* inserted (0: none); work, began and short are the history of the call:
\* the steps it has done, what it found when it started, and whether a
\* line was short of stock when it validated the stock.
IdleCall ==
    [pc |-> "idle", data |-> NoValue, quote_data |-> NoValue,
     selected_rate |-> NoValue, order_id |-> 0, result |-> NoValue,
     work |-> {}, began |-> NoValue, short |-> FALSE]

\* empty( $data[ $field ] ) for the three required fields, in their order
MissingField(data) ==
    IF data.quote_id = 0 THEN "quote_id"
    ELSE IF data.billing_address = NoValue THEN "billing_address"
    ELSE IF data.payment_method = "" THEN "payment_method"
    ELSE ""

\* wc_get_orders( meta_key = _eva_idempotency_key, meta_value = key ):
\* the ids of the orders that carry the key
OrdersWithKey(table, key) ==
    {o \in DOMAIN table : table[o].idempotency_key = key}

\* the idempotency lookup that never finds an order
find_no_order(table, key) == {0}

\* The orders find_order_by_idempotency_key may return: $orders[0] of a
\* query with limit 1, so any one of the orders that carry the key;
\* {0} when there is none.
find_order_by_idempotency_key(table, key) ==
    IF OrdersWithKey(table, key) = {} THEN {0} ELSE OrdersWithKey(table, key)

\* PHP's empty() on a text field: the empty string and "0"
empty(text) == text \in {"", "0"}

\* the first rate of the quote, whatever id was asked for
find_first_rate(rates, rate_id) ==
    IF rates # <<>> THEN rates[1] ELSE NoValue

\* NoValue when no rate of the quote has the id
find_shipping_rate(rates, rate_id) ==
    IF \E i \in 1..Len(rates) : rates[i].rate_id = rate_id
    THEN rates[CHOOSE i \in 1..Len(rates) :
                   /\ rates[i].rate_id = rate_id
                   /\ \A j \in 1..(i - 1) : rates[j].rate_id # rate_id]
    ELSE NoValue

\* the stock verdict on a line that never compares quantities
LineStockErrorNoQuantity(catalog, item) ==
    LET product == ProductOf(catalog, item.variation_id, item.product_id)
    IN  IF product = NoValue THEN "eva_product_not_found"
        ELSE IF ~ product.in_stock THEN "eva_out_of_stock"
        ELSE ""

\* The verdict of validate_stock on one line: "" or the error code
LineStockError(catalog, item) ==
    LET product == ProductOf(catalog, item.variation_id, item.product_id)
    IN  IF product = NoValue THEN "eva_product_not_found"
        ELSE IF ~ product.in_stock THEN "eva_out_of_stock"
        ELSE IF /\ product.manage_stock
                /\ product.stock_quantity # NoValue
                /\ product.stock_quantity[1] < item.quantity
                /\ ~ product.backorders
             THEN "eva_insufficient_stock"
        ELSE ""

\* "" when every line passes, else the error of the first line that fails
validate_stock(catalog, line_items) ==
    LET failed == {i \in 1..Len(line_items) :
                      LineStockError(catalog, line_items[i]) # ""}
    IN  IF failed = {} THEN ""
        ELSE LineStockError(catalog,
                 line_items[CHOOSE i \in failed : \A j \in failed : i <= j])

\* the initial status that puts every offline payment method on hold
get_initial_order_status_offline_on_hold(payment_method, data) ==
    IF data.set_paid = TRUE THEN "processing"
    ELSE IF payment_method \in {"bacs", "cheque", "cod"} THEN "on-hold"
    ELSE "pending"

get_initial_order_status(payment_method, data) ==
    IF data.set_paid = TRUE THEN "processing"
    ELSE IF payment_method \in {"bacs", "cheque", "cod"}
         THEN (IF payment_method = "cod" THEN "processing" ELSE "on-hold")
    ELSE "pending"

determine_next_action(status) ==
    CASE status = "pending" -> "await_payment"
      [] status = "on-hold" -> "await_payment_confirmation"
      [] status = "processing" -> "order_confirmed"
      [] status = "completed" -> "order_complete"
      [] OTHER -> "unknown"

format_order_response(table, order_id, action) ==
    [error |-> "",
     order_id |-> order_id,
     status |-> table[order_id].status,
     next_action |-> determine_next_action(table[order_id].status),
     created |-> (action = "created")]

WP_Error(code, status) == [error |-> code, status |-> status]

\* wc_create_order( status pending, customer_id ): the row it inserts
NewOrder(customer_id) ==
    [status |-> "pending", customer_id |-> customer_id, items |-> <<>>,
     shipping |-> NoValue, coupons |-> <<>>, payment_method |-> "",
     quote_id |-> 0, idempotency_key |-> "", created_via |-> "",
     stock_reduced |-> FALSE]

\* The lines the loop of create_wc_order adds before it ends or throws: the
\* lines before the first one whose product is gone.
RECURSIVE AddedLines(_, _)
AddedLines(catalog, line_items) ==
    IF line_items = <<>> THEN <<>>
    ELSE LET item == Head(line_items)
         IN  IF ProductOf(catalog, item.variation_id, item.product_id) = NoValue
             THEN <<>>
             ELSE <<[product_id |-> IF item.variation_id # 0 THEN item.variation_id
                                    ELSE item.product_id,
                     quantity |-> item.quantity,
                     meta |-> item.meta]>>
                  \o AddedLines(catalog, Tail(line_items))

\* wc_reduce_stock_levels: the catalog after the lines of an order are taken
\* from the stock of the products that manage stock; a product left with
\* no stock and no backorders goes out of stock.
RECURSIVE ReduceStockLevels(_, _)
ReduceStockLevels(catalog, items) ==
    IF items = <<>> THEN catalog
    ELSE LET item == Head(items)
             p == item.product_id
             row == catalog[p]
             left == row.stock_quantity[1] - item.quantity
             after ==
                 IF row.exists /\ row.manage_stock /\ row.stock_quantity # NoValue
                 THEN [catalog EXCEPT ![p].stock_quantity = <<left>>,
                                      ![p].in_stock = (left > 0 \/ row.backorders)]
                 ELSE catalog
         IN  ReduceStockLevels(after, Tail(items))

\* --------------------------------------------------------------- the shop
\* Product 1 is a shippable product sold at 20.00 whose stock is managed;
\* product 2 is its virtual variation sold at 10.10, stock not managed.
InitialCatalog ==
    [id \in ProductIds |->
        IF id = 1
        THEN [id |-> 1, exists |-> TRUE, purchasable |-> TRUE, price |-> 2000,
              manage_stock |-> TRUE, stock_quantity |-> <<MaxStock>>,
              backorders |-> FALSE, in_stock |-> TRUE, needs_shipping |-> TRUE,
              tax_class |-> "", cats |-> {10}]
        ELSE [id |-> 2, exists |-> TRUE, purchasable |-> TRUE, price |-> 1010,
              manage_stock |-> FALSE, stock_quantity |-> NoValue,
              backorders |-> FALSE, in_stock |-> TRUE, needs_shipping |-> FALSE,
              tax_class |-> "", cats |-> {20}]]

\* ---------------------------------------------------------------- requests
SeqsUpTo(S, n) == UNION {[1..k -> S] : k \in 0..n}

QuoteItems ==
    {[product_id |-> 1, variation_id |-> v, quantity |-> q, meta |-> NoValue] :
        v \in {0, 2}, q \in {1, MaxQty}}

QuoteCodes == {"SAVE10", "all100", "five", "old"}

Addresses == {NoValue, [country |-> "US"]}

QuoteRequests ==
    [items : SeqsUpTo(QuoteItems, MaxItems) \ {<<>>},
     coupons : SeqsUpTo(QuoteCodes, MaxCoupons),
     shipping_address : Addresses,
     customer_id : {0}]

NoRequest == [items |-> <<>>, coupons |-> <<>>, shipping_address |-> NoValue,
              customer_id |-> 0]

\* ------------------------------------------------------------ create_quote
\* a create_quote that stores its lines as it resolves them, and so leaves
\* the lines before a rejected one in the store
CreateQuoteLineByLine(data) ==
    /\ next_quote < MaxQuotes
    /\ LET r == create_quote(data, products, tax_enabled, now, next_quote)
           resolved == {i \in 1..Len(data.items) :
                           \A j \in 1..i :
                               process_line_item(products, data.items[j]).error = ""}
       IN  IF r.error # ""
           THEN /\ qout' = r
                /\ transients' =
                      IF resolved = {}
                      THEN transients
                      ELSE [k \in {generate_quote_id(next_quote + 1)} |->
                               [value |-> [line_items_raw |->
                                              [i \in resolved |-> data.items[i]]],
                                timeout |-> now + QUOTE_TTL]]
                /\ UNCHANGED next_quote
           ELSE /\ transients' = store_quote(transients, r.quote.quote_id, r.data, now)
                /\ next_quote' = next_quote + 1
                /\ qout' = [error |-> "", quote |-> r.quote]
    /\ UNCHANGED <<now, products, tax_enabled, qin, orders, call, ncalls,
                   nchanges, gout,
                   aside>>

\* POST /quote: EVA_Quote_Handler::create_quote with its store write.
CreateQuote(data) ==
    /\ next_quote < MaxQuotes
    /\ LET r == create_quote(data, products, tax_enabled, now, next_quote)
       IN  IF r.error # ""
           THEN /\ qout' = r
                /\ UNCHANGED <<transients, next_quote>>
           ELSE /\ transients' = store_quote(transients, r.quote.quote_id, r.data, now)
                /\ next_quote' = next_quote + 1
                /\ qout' = [error |-> "", quote |-> r.quote]
    /\ UNCHANGED <<now, products, tax_enabled, qin, orders, call, ncalls,
                   nchanges, gout,
                   aside>>

\* ------------------------------------------------- the quote specification
\* One quote request, drawn at the start, priced against the shop.
QInit ==
    /\ now \in {0, QUOTE_TTL}
    /\ products = InitialCatalog
    /\ tax_enabled \in BOOLEAN
    /\ transients = <<>>
    /\ next_quote = 0
    /\ qin \in QuoteRequests
    /\ qout = NoValue
    /\ orders = <<>>
    /\ call = [w \in Workers |-> IdleCall]
    /\ ncalls = 0
    /\ nchanges = 0
    /\ gout = NoValue
    /\ rin = NoValue
    /\ rout = NoValue
    /\ permit = NoValue
    /\ ClientIdle

QNext == CreateQuote(qin)

QuoteSpec == QInit /\ [][QNext]_vars

\* a quote was produced by the last create_quote call
Quoted == qout # NoValue /\ qout.error = ""

\* ------------------------------------------------------ claims on quotes
\* the minor-unit discounts of the valid coupons of a quote, summed
ValidDiscountSum(quote) ==
    SumSeq([i \in 1..Len(quote.coupons) |->
               IF quote.coupons[i].valid THEN quote.coupons[i].discount ELSE 0])

\* C8: every quote create_quote produces has total = subtotal - discount + tax,
\* shipping = 0, and subtotal, discount, shipping, tax and total all >= 0.
C8_TotalsAlgebra ==
    Quoted =>
        LET t == qout.quote.totals
        IN  /\ t.total = t.subtotal - t.discount + t.tax
            /\ t.shipping = 0
            /\ t.subtotal >= 0 /\ t.discount >= 0 /\ t.shipping >= 0
            /\ t.tax >= 0 /\ t.total >= 0

\* C9: every quote create_quote produces has discount <= subtotal.
C9_DiscountBound ==
    Quoted => qout.quote.totals.discount <= qout.quote.totals.subtotal

\* C10: the discount of a quote is the sum of the discounts of its valid
\* coupons (minor units), limited to the subtotal.
C10_DiscountIsValidSum ==
    Quoted =>
        qout.quote.totals.discount =
            Min(ValidDiscountSum(qout.quote), qout.quote.totals.subtotal)

\* C11: in every quote, line_items, stock_status and coupons are as long as
\* the submitted items and coupon codes, and entry i of each describes
\* submitted entry i: the same product, variation and quantity, the same
\* coupon code (in its stored form).
C11_OrderingPreserved ==
    Quoted =>
        LET quote == qout.quote
        IN  /\ Len(quote.line_items) = Len(qin.items)
            /\ Len(quote.stock_status) = Len(qin.items)
            /\ Len(quote.coupons) = Len(qin.coupons)
            /\ \A i \in 1..Len(qin.items) :
                  /\ quote.line_items[i].product_id = qin.items[i].product_id
                  /\ quote.line_items[i].variation_id = qin.items[i].variation_id
                  /\ quote.line_items[i].quantity = qin.items[i].quantity
                  /\ quote.stock_status[i].requested = qin.items[i].quantity
                  /\ quote.stock_status[i].product_id =
                        (IF qin.items[i].variation_id # 0
                         THEN qin.items[i].variation_id ELSE qin.items[i].product_id)
            /\ \A j \in 1..Len(qin.coupons) :
                  quote.coupons[j].code = wc_format_coupon_code(qin.coupons[j])

\* C11 witness: a quote for two different lines and two different codes
C11_TwoLinesTwoCodes ==
    /\ Quoted
    /\ Len(qin.items) = 2 /\ qin.items[1] # qin.items[2]
    /\ Len(qin.coupons) = 2 /\ qin.coupons[1] # qin.coupons[2]

\* what a quote records for a coupon: valid or not, why not, how much
Outcome(validation) ==
    <<validation.valid,
      IF validation.valid THEN "" ELSE validation.reason,
      validation.discount>>

\* C12: the outcome a quote records for a coupon code is the outcome that
\* code gets in a request with the same items and no other code: it does
\* not depend on the other codes or on their order.
C12_CouponIndependence ==
    Quoted =>
        \A j \in 1..Len(qin.coupons) :
            LET alone == create_quote([qin EXCEPT !.coupons = <<qin.coupons[j]>>],
                                      products, tax_enabled, now, 0)
            IN  /\ alone.error = ""
                /\ Outcome(alone.quote.coupons[1]) = Outcome(qout.quote.coupons[j])

\* C12 witness: a quote with two valid coupons that take something off
C12_TwoValidCoupons ==
    /\ Quoted
    /\ Len(qin.coupons) = 2
    /\ \A j \in 1..2 : qout.quote.coupons[j].valid /\ qout.quote.coupons[j].discount > 0

\* ------------------------------------------------------------ create_order
OrderKeys == {"", "k1"}

OrderRequests ==
    [quote_id : 1..MaxQuotes,
     idempotency_key : OrderKeys,
     shipping_rate_id : {"flat_rate:1", ""},
     billing_address : Addresses,
     payment_method : {"cod"},
     set_paid : {FALSE}]

\* the cart of the order pipeline: one unit of product 1 and, on a second
\* line, as many as a line may ask for
PipelineItems ==
    {<<[product_id |-> 1, variation_id |-> 0, quantity |-> 1, meta |-> NoValue],
       [product_id |-> 1, variation_id |-> 0, quantity |-> MaxQty, meta |-> NoValue]>>}

PipelineQuoteRequests ==
    [items : PipelineItems, coupons : {<<>>},
     shipping_address : {[country |-> "US"]}, customer_id : {0}]

\* the call of worker w returns
Return(w, result) ==
    [call EXCEPT ![w].pc = "done", ![w].result = result]

\* a worker is free when it serves no call
Free(w) == call[w].pc \in {"idle", "done"}

\* the web server hands a request to the first free worker
FirstFree(w) == Free(w) /\ (w = "w2" => ~ Free("w1"))

\* What a call finds: the orders that carry its key, and whether its quote
\* is stored, at or past its expires_at, past its timeout.
Found(data) ==
    LET q == data.quote_id
        stored == q \in DOMAIN transients
    IN  [prior |-> IF data.idempotency_key = "" THEN {}
                   ELSE OrdersWithKey(orders, data.idempotency_key),
         stored |-> stored,
         expired |-> stored /\ transients[q].value.quote.expires_at <= now,
         timed_out |-> stored /\ transients[q].timeout < now]

\* POST /order arrives at a free worker: create_order from its first line
\* to the end of the idempotency check (lines 51-72).
Begin(w, data) ==
    /\ FirstFree(w)
    /\ ncalls < MaxCalls
    /\ ncalls' = ncalls + 1
    /\ LET idempotency_key == data.idempotency_key
           fresh == [IdleCall EXCEPT !.data = data, !.began = Found(data)]
       IN  IF MissingField(data) # ""
           THEN call' = [call EXCEPT ![w] =
                            [fresh EXCEPT !.pc = "done",
                                          !.result = WP_Error("eva_missing_field", 400)]]
           ELSE \E existing_order \in
                       (IF idempotency_key # ""
                        THEN find_order_by_idempotency_key(orders, idempotency_key)
                        ELSE {0}) :
                    IF existing_order # 0
                    THEN call' = [call EXCEPT ![w] =
                                     [fresh EXCEPT
                                         !.pc = "done",
                                         !.result = format_order_response(
                                                        orders, existing_order, "existing")]]
                    ELSE call' = [call EXCEPT ![w] = [fresh EXCEPT !.pc = "quote"]]
    /\ UNCHANGED <<now, products, tax_enabled, transients, next_quote, qin, qout,
                   orders, nchanges, gout,
                   aside>>

\* create_order lines 74-105: the quote is read and the shipping rate
\* checked; began now tells how the quote was when the call read it
GetQuoteData(w) ==
    /\ call[w].pc = "quote"
    /\ \E quote_data \in retrieve_quote(transients, call[w].data.quote_id, now) :
          LET shipping_rate_id == call[w].data.shipping_rate_id
              looked == [call EXCEPT
                            ![w].work = @ \cup {"quote_lookup"},
                            ![w].began = [Found(call[w].data) EXCEPT
                                             !.prior = call[w].began.prior],
                            ![w].quote_data = quote_data]
          IN  IF quote_data = NoValue
              THEN call' = [looked EXCEPT ![w].pc = "done",
                                          ![w].result = WP_Error("eva_quote_expired", 400)]
              ELSE LET rates == quote_data.quote.shipping_rates
                       selected_rate == find_shipping_rate(rates, shipping_rate_id)
                   IN  IF rates # <<>> /\ empty(shipping_rate_id)
                       THEN call' = [looked EXCEPT
                                        ![w].pc = "done",
                                        ![w].result = WP_Error("eva_missing_shipping", 400)]
                       ELSE IF rates # <<>> /\ selected_rate = NoValue
                       THEN call' = [looked EXCEPT
                                        ![w].pc = "done",
                                        ![w].result =
                                            WP_Error("eva_invalid_shipping_rate", 400)]
                       ELSE call' = [looked EXCEPT
                                        ![w].pc = "stock",
                                        ![w].selected_rate =
                                            IF rates # <<>> THEN selected_rate ELSE NoValue]
    /\ UNCHANGED <<now, products, tax_enabled, transients, next_quote, qin, qout,
                   orders, ncalls, nchanges, gout,
                   aside>>

\* A line that cannot be served from the catalog: its product is gone or
\* out of stock, or manages stock without backorders and has less than asked.
ShortLine(catalog, item) ==
    LET id == IF item.variation_id # 0 THEN item.variation_id ELSE item.product_id
    IN  \/ id \notin DOMAIN catalog
        \/ ~ catalog[id].exists
        \/ ~ catalog[id].in_stock
        \/ /\ catalog[id].manage_stock
           /\ ~ catalog[id].backorders
           /\ catalog[id].stock_quantity # NoValue
           /\ catalog[id].stock_quantity[1] < item.quantity

\* a stock validation that drops the quote of the call it rejects
ValidateStockDropsQuote(w) ==
    /\ call[w].pc = "stock"
    /\ LET line_items == call[w].quote_data.line_items_raw
           stock_check == validate_stock(products, line_items)
           checked == [call EXCEPT
                          ![w].work = @ \cup {"stock_check"},
                          ![w].short = \E i \in 1..Len(line_items) :
                                          ShortLine(products, line_items[i])]
       IN  IF stock_check # ""
           THEN /\ call' = [checked EXCEPT ![w].pc = "done",
                                           ![w].result = WP_Error(stock_check, 400)]
                /\ transients' = delete_quote(transients, call[w].data.quote_id)
           ELSE /\ call' = [checked EXCEPT ![w].pc = "insert"]
                /\ UNCHANGED transients
    /\ UNCHANGED <<now, products, tax_enabled, next_quote, qin, qout,
                   orders, ncalls, nchanges, gout,
                   aside>>

\* create_order lines 107-111: stock is validated again
ValidateStock(w) ==
    /\ call[w].pc = "stock"
    /\ LET line_items == call[w].quote_data.line_items_raw
           stock_check == validate_stock(products, line_items)
           checked == [call EXCEPT
                          ![w].work = @ \cup {"stock_check"},
                          ![w].short = \E i \in 1..Len(line_items) :
                                          ShortLine(products, line_items[i])]
       IN  IF stock_check # ""
           THEN call' = [checked EXCEPT ![w].pc = "done",
                                        ![w].result = WP_Error(stock_check, 400)]
           ELSE call' = [checked EXCEPT ![w].pc = "insert"]
    /\ UNCHANGED <<now, products, tax_enabled, transients, next_quote, qin, qout,
                   orders, ncalls, nchanges, gout,
                   aside>>

\* create_wc_order lines 142-167: wc_create_order inserts the order row and
\* the lines are added; a line whose product is gone throws, which
\* create_order catches (lines 116-123).
InsertOrder(w) ==
    /\ call[w].pc = "insert"
    /\ LET raw == call[w].quote_data.line_items_raw
           lines == AddedLines(products, raw)
           order_id == Len(orders) + 1
           order == [NewOrder(call[w].quote_data.customer_id) EXCEPT !.items = lines]
           inserted == [call EXCEPT ![w].order_id = order_id,
                                    ![w].work = @ \cup {"insert"}]
       IN  /\ orders' = Append(orders, order)
           /\ IF Len(lines) < Len(raw)
              THEN call' = [inserted EXCEPT
                               ![w].pc = "done",
                               ![w].result = WP_Error("eva_order_creation_failed", 500)]
              ELSE call' = [inserted EXCEPT ![w].pc = "save"]
    /\ UNCHANGED <<now, products, tax_enabled, transients, next_quote, qin, qout,
                   ncalls, nchanges, gout,
                   aside>>

\* create_wc_order lines 169-231: shipping, coupons, addresses, payment
\* method, meta data and status are set and the order is saved
SaveOrder(w) ==
    /\ call[w].pc = "save"
    /\ LET data == call[w].data
           payment_method == data.payment_method
       IN  orders' = [orders EXCEPT ![call[w].order_id] =
                         [@ EXCEPT
                             !.shipping = call[w].selected_rate,
                             !.coupons = call[w].quote_data.coupon_codes,
                             !.payment_method = payment_method,
                             !.quote_id = data.quote_id,
                             !.idempotency_key = data.idempotency_key,
                             !.created_via = "eva-checkout-api",
                             !.status = get_initial_order_status(payment_method, data)]]
    /\ call' = [call EXCEPT ![w].pc = "reduce"]
    /\ UNCHANGED <<now, products, tax_enabled, transients, next_quote, qin, qout,
                   ncalls, nchanges, gout,
                   aside>>

\* a stock reduction that takes the stock and leaves the order unmarked
ReduceStockUnmarked(w) ==
    /\ call[w].pc = "reduce"
    /\ products' = ReduceStockLevels(products, orders[call[w].order_id].items)
    /\ call' = [call EXCEPT ![w].pc = "delete", ![w].work = @ \cup {"stock_reduce"}]
    /\ UNCHANGED <<now, tax_enabled, transients, next_quote, qin, qout,
                   orders, ncalls, nchanges, gout,
                   aside>>

\* create_wc_order lines 233-239: wc_reduce_stock_levels( order id )
ReduceStock(w) ==
    /\ call[w].pc = "reduce"
    /\ LET order == orders[call[w].order_id]
       IN  IF order.stock_reduced
           THEN UNCHANGED <<products, orders>>
           ELSE /\ products' = ReduceStockLevels(products, order.items)
                /\ orders' = [orders EXCEPT ![call[w].order_id].stock_reduced = TRUE]
    /\ call' = [call EXCEPT ![w].pc = "delete", ![w].work = @ \cup {"stock_reduce"}]
    /\ UNCHANGED <<now, tax_enabled, transients, next_quote, qin, qout,
                   ncalls, nchanges, gout,
                   aside>>

\* create_order lines 125-128: the quote is deleted and the order returned
DeleteQuote(w) ==
    /\ call[w].pc = "delete"
    /\ transients' = delete_quote(transients, call[w].data.quote_id)
    /\ call' = [Return(w, format_order_response(orders, call[w].order_id, "created"))
                   EXCEPT ![w].work = @ \cup {"quote_delete"}]
    /\ UNCHANGED <<now, products, tax_enabled, next_quote, qin, qout,
                   orders, ncalls, nchanges, gout,
                   aside>>

\* a create_order call that returned created = true has used the quote
Consumed(quote_id) ==
    \E w \in Workers :
        /\ call[w].pc = "done"
        /\ call[w].result.error = ""
        /\ call[w].result.created
        /\ call[w].data.quote_id = quote_id

\* GET /quote/{id}: gout is the response, with the quote id asked for and
\* whether the quote had been consumed when it was asked for
GetQuote(quote_id) ==
    /\ ncalls < MaxCalls
    /\ ncalls' = ncalls + 1
    /\ \E r \in get_quote(transients, quote_id, now) :
          gout' = [quote_id |-> quote_id, error |-> r.error,
                   quote |-> IF r.error = "" THEN r.quote ELSE NoValue,
                   consumed |-> Consumed(quote_id)]
    /\ UNCHANGED <<now, products, tax_enabled, transients, next_quote, qin, qout,
                   orders, call, nchanges,
                   aside>>

\* ------------------------------------------------------------- environment
\* time passes, one lifetime of a quote at a time
Tick ==
    /\ now < MaxTicks * QUOTE_TTL
    /\ now' = now + QUOTE_TTL
    /\ UNCHANGED <<products, tax_enabled, transients, next_quote, qin, qout,
                   orders, call, ncalls, nchanges, gout,
                   aside>>

\* the back-office sets the stock of a product that manages stock
SetStock(p, q) ==
    /\ nchanges < MaxChanges
    /\ products[p].exists /\ products[p].manage_stock
    /\ products[p].stock_quantity # <<q>>
    /\ products' = [products EXCEPT ![p].stock_quantity = <<q>>,
                                    ![p].in_stock = (q > 0 \/ products[p].backorders)]
    /\ nchanges' = nchanges + 1
    /\ UNCHANGED <<now, tax_enabled, transients, next_quote, qin, qout,
                   orders, call, ncalls, gout,
                   aside>>

\* the back-office deletes a product
DeleteProduct(p) ==
    /\ nchanges < MaxChanges
    /\ products[p].exists
    /\ products' = [products EXCEPT ![p].exists = FALSE]
    /\ nchanges' = nchanges + 1
    /\ UNCHANGED <<now, tax_enabled, transients, next_quote, qin, qout,
                   orders, call, ncalls, gout,
                   aside>>

\* ------------------------------------------------ the order specification
Init ==
    /\ now = 0
    /\ products = InitialCatalog
    /\ tax_enabled = FALSE
    /\ transients = <<>>
    /\ next_quote = 0
    /\ qin = NoRequest
    /\ qout = NoValue
    /\ orders = <<>>
    /\ call = [w \in Workers |-> IdleCall]
    /\ ncalls = 0
    /\ nchanges = 0
    /\ gout = NoValue
    /\ rin = NoValue
    /\ rout = NoValue
    /\ permit = NoValue
    /\ ClientIdle

\* the products whose stock the shop manages
StockedProducts == {p \in ProductIds : InitialCatalog[p].manage_stock}

Next ==
    \/ \E data \in PipelineQuoteRequests : CreateQuote(data)
    \/ \E quote_id \in 1..MaxQuotes : GetQuote(quote_id)
    \/ \E w \in Workers, data \in OrderRequests : Begin(w, data)
    \/ \E w \in Workers : GetQuoteData(w)
    \/ \E w \in Workers : ValidateStock(w)
    \/ \E w \in Workers : InsertOrder(w)
    \/ \E w \in Workers : SaveOrder(w)
    \/ \E w \in Workers : ReduceStock(w)
    \/ \E w \in Workers : DeleteQuote(w)
    \/ Tick
    \/ \E p \in StockedProducts, q \in 0..MaxStock : SetStock(p, q)
    \/ \E p \in StockedProducts : DeleteProduct(p)

Spec == Init /\ [][Next]_vars

\* ------------------------------------------------------- claims on orders
\* the calls that have started
Started(w) == call[w].pc # "idle"

\* the call of w has returned
Returned(w) == call[w].pc = "done"

\* the call of w was answered as a replay: an order that carried its key
\* when it started, created = false, nothing inserted and no step done
Replayed(w) ==
    /\ call[w].result.error = ""
    /\ call[w].result.order_id \in call[w].began.prior
    /\ ~ call[w].result.created
    /\ call[w].order_id = 0
    /\ call[w].work = {}

\* the quote of the call was not usable when the call read it (when the
\* call started, for a call that returned before): never issued, deleted,
\* or at or past its expires_at
QuoteGone(w) == ~ call[w].began.stored \/ call[w].began.expired

\* the same, by the timeout of the store: never issued, deleted, or past
\* the timeout
QuotePastTimeout(w) == ~ call[w].began.stored \/ call[w].began.timed_out

StockErrors == {"eva_product_not_found", "eva_out_of_stock", "eva_insufficient_stock"}

\* C1: at most one order ever carries a given non-empty idempotency key,
\* and the calls made with that key that returned an order all returned
\* the same order.
C1_OneOrderPerKey ==
    \A k \in OrderKeys \ {""} :
        /\ Cardinality(OrdersWithKey(orders, k)) <= 1
        /\ \A v, w \in Workers :
              (/\ Returned(v) /\ Returned(w)
               /\ call[v].data.idempotency_key = k
               /\ call[w].data.idempotency_key = k
               /\ call[v].result.error = "" /\ call[w].result.error = "")
              => call[v].result.order_id = call[w].result.order_id

NoOrderPastTimeout ==
    \A w \in Workers :
        (Started(w) /\ QuotePastTimeout(w)) => call[w].order_id = 0

C3_OneOrderPerQuote ==
    \A i, j \in DOMAIN orders :
        (/\ i # j
         /\ orders[i].quote_id # 0
         /\ \/ orders[i].idempotency_key # orders[j].idempotency_key
            \/ orders[i].idempotency_key = "")
        => orders[i].quote_id # orders[j].quote_id

\* C4: a create_order call whose quote was never issued, is deleted, or has
\* expires_at <= now inserts no order and, once it has returned, has
\* returned quote_expired.
C4_ExpiryGate ==
    \A w \in Workers :
        (Started(w) /\ QuoteGone(w))
        => /\ call[w].order_id = 0
           /\ Returned(w) => call[w].result.error = "eva_quote_expired"

\* C5: a create_order call that validates the stock when a quoted line is
\* short (too little stock for a product that manages stock without
\* backorders, or a product deleted or out of stock) is rejected with a
\* stock error and inserts no order.
C5_StockRevalidation ==
    \A w \in Workers :
        call[w].short
        => /\ Returned(w)
           /\ call[w].result.error \in StockErrors
           /\ call[w].order_id = 0

\* C5 witness: a call was rejected for stock although every line of the
\* snapshot in its quote says ok
C5_RejectedAgainstSnapshot ==
    \E w \in Workers :
        /\ call[w].short
        /\ Returned(w)
        /\ call[w].result.error = "eva_insufficient_stock"
        /\ \A i \in DOMAIN call[w].quote_data.quote.stock_status :
              call[w].quote_data.quote.stock_status[i].ok

\* C6: a create_order call that returned an error has left no order that
\* it inserted.
C6_AllOrNothing ==
    \A w \in Workers :
        (Returned(w) /\ call[w].result.error # "") => call[w].order_id = 0

\* C7: a get_quote on a quote that a create_order call returning
\* created = true has consumed answers quote_not_found.
C7_ConsumedQuoteNotFound ==
    (gout # NoValue /\ gout.consumed) => gout.error = "eva_quote_not_found"

\* C7 witness: a consumed quote was asked for
C7_AskedAfterOrder ==
    /\ gout # NoValue
    /\ gout.consumed
    /\ gout.error = "eva_quote_not_found"

\* ------------------------------------------------- POST /coupon/validate
\* the variables of the quote -> order pipeline
pipeline == <<now, products, tax_enabled, transients, next_quote, qin, qout,
              orders, call, ncalls, nchanges, gout>>

\* EVA_Coupon_Handler::validate_coupon_request: the cart total is the price
\* of the products that exist times the quantities
validate_coupon_request(data, catalog, t) ==
    LET line_items == data.items
        prices == [i \in 1..Len(line_items) |->
                      LET product == ProductOf(catalog,
                                               absint(line_items[i].variation_id),
                                               absint(line_items[i].product_id))
                      IN  IF product = NoValue THEN 0
                          ELSE FloatOfMinor(product.price) * absint(line_items[i].quantity)]
        cart_total == SumSeq(prices)
    IN  IF data.code = "" THEN WP_Error("eva_missing_code", 400)
        ELSE [error |-> "",
              cart_total |-> cart_total,
              validation |-> validate_coupon(data.code, line_items, cart_total,
                                             catalog, t)]

\* POST /coupon/validate; the response keeps the cart total the coupon was
\* validated against
ValidateCoupon(data) ==
    /\ rout' = validate_coupon_request(data, products, now)
    /\ UNCHANGED <<pipeline, rin, permit, client>>

CouponRequests ==
    [code : Codes \cup {""}, items : SeqsUpTo(QuoteItems, MaxItems)]

\* one coupon validation request, drawn at the start, before or after the
\* dated coupons expire
CInit ==
    /\ now \in {0, QUOTE_TTL}
    /\ products = InitialCatalog
    /\ tax_enabled = FALSE
    /\ transients = <<>>
    /\ next_quote = 0
    /\ qin = NoRequest
    /\ qout = NoValue
    /\ orders = <<>>
    /\ call = [w \in Workers |-> IdleCall]
    /\ ncalls = 0
    /\ nchanges = 0
    /\ gout = NoValue
    /\ rin \in CouponRequests
    /\ rout = NoValue
    /\ permit = NoValue
    /\ ClientIdle

CNext == ValidateCoupon(rin)

CouponSpec == CInit /\ [][CNext]_vars

\* ------------------------------------------------------ claims on coupons
\* the checks of a coupon, by the reason each gives, in their order
CheckOrder ==
    <<"coupon_not_found", "coupon_disabled", "coupon_expired", "coupon_usage_limit",
      "coupon_min_spend", "coupon_max_spend", "coupon_not_applicable">>

\* the coupon fails check k for a cart and a time
FailsCheck(k, coupon, line_items, cart_total, catalog, t) ==
    CASE k = 1 -> coupon.id = 0
      [] k = 2 -> coupon.status # "publish"
      [] k = 3 -> coupon.date_expires # NoValue /\ coupon.date_expires[1] < t
      [] k = 4 -> coupon.usage_limit > 0 /\ coupon.usage_count >= coupon.usage_limit
      [] k = 5 -> coupon.minimum_amount > 0 /\ cart_total < coupon.minimum_amount
      [] k = 6 -> coupon.maximum_amount > 0 /\ cart_total > coupon.maximum_amount
      [] k = 7 -> /\ coupon.product_ids # {} \/ coupon.product_categories # {}
                  /\ \A i \in 1..Len(line_items) :
                        ~ LineAllowed(coupon, catalog, line_items[i])

\* the checks the coupon of the request under study fails
FailedChecks ==
    LET coupon == WC_Coupon(wc_format_coupon_code(rin.code))
    IN  {k \in 1..7 : IF coupon.id = 0 THEN k = 1
                      ELSE FailsCheck(k, coupon, rin.items, rout.cart_total,
                                      products, now)}

\* the coupon of the request under study was validated
Validated == rout # NoValue /\ rout.error = ""

\* C13: a validated coupon is valid when it fails no check; otherwise it is
\* invalid with the reason of the first check it fails, in the order
\* existence, enabled, expiry, usage limit, minimum spend, maximum spend,
\* product restriction.
C13_FirstFailingCheck ==
    Validated =>
        IF FailedChecks = {} THEN rout.validation.valid
        ELSE /\ ~ rout.validation.valid
             /\ rout.validation.reason =
                   CheckOrder[CHOOSE k \in FailedChecks : \A j \in FailedChecks : k <= j]

\* C13 witness: a coupon that fails the usage check and both spend checks
\* was validated
C13_SeveralChecksFail ==
    /\ Validated
    /\ {4, 5, 6} \subseteq FailedChecks
    /\ rout.validation.reason = "coupon_usage_limit"

\* ------------------------------------------- create_order, one call at a time
\* The requests of a single client: every payment method and set_paid flag,
\* and a shipping_rate_id that is a rate of the quote, empty, "0", or the
\* id of no rate.
SerialOrderRequests ==
    [quote_id : 1..MaxQuotes,
     idempotency_key : {""},
     shipping_rate_id : {"flat_rate:1", "free_shipping:2", "", "0", "pickup:9"},
     billing_address : {[country |-> "US"]},
     payment_method : {"cod", "bacs", "cheque", "stripe"},
     set_paid : BOOLEAN]

\* quotes with a destination, which have rates, and without, which have none
SerialQuoteRequests ==
    [items : PipelineItems, coupons : {<<>>},
     shipping_address : Addresses, customer_id : {0}]

SNext ==
    \/ \E data \in SerialQuoteRequests : CreateQuote(data)
    \/ \E data \in SerialOrderRequests : Begin("w1", data)
    \/ GetQuoteData("w1")
    \/ ValidateStock("w1")
    \/ InsertOrder("w1")
    \/ SaveOrder("w1")
    \/ ReduceStock("w1")
    \/ DeleteQuote("w1")

SerialSpec == Init /\ [][SNext]_vars

\* the call of w has created an order
Created(w) ==
    Returned(w) /\ call[w].result.error = "" /\ call[w].result.created

\* the status the first matching rule gives a request
RuleStatus(data) ==
    CASE data.set_paid -> "processing"
      [] ~ data.set_paid /\ data.payment_method = "cod" -> "processing"
      [] ~ data.set_paid /\ data.payment_method \in {"bacs", "cheque"} -> "on-hold"
      [] OTHER -> "pending"

RuleAction(status) ==
    CASE status = "processing" -> "order_confirmed"
      [] status = "on-hold" -> "await_payment_confirmation"
      [] status = "pending" -> "await_payment"

\* C14: a created order has the status of the first matching rule (set_paid
\* gives processing; else cod gives processing; else bacs or cheque give
\* on-hold; otherwise pending), the response reports that status, and its
\* next_action is order_confirmed for processing, await_payment_confirmation
\* for on-hold and await_payment for pending.
C14_InitialStatus ==
    \A w \in Workers :
        Created(w) =>
            LET result == call[w].result
                status == RuleStatus(call[w].data)
            IN  /\ orders[result.order_id].status = status
                /\ result.status = status
                /\ result.next_action = RuleAction(status)

\* an order paid by bank transfer and flagged set_paid was created in
\* processing: the first rule won over the third
C14_PaidBankTransfer ==
    \E w \in Workers :
        /\ Created(w)
        /\ call[w].data.set_paid
        /\ call[w].data.payment_method = "bacs"
        /\ call[w].result.status = "processing"
        /\ call[w].result.next_action = "order_confirmed"

\* the call of w has read its quote from the store
ReadQuote(w) == call[w].quote_data # NoValue

\* the rates of the quote the call of w has read
RatesOf(w) == call[w].quote_data.quote.shipping_rates

\* the shipping_rate_id of the call is the rate_id of a rate of its quote
RateOffered(w) ==
    \E i \in 1..Len(RatesOf(w)) :
        RatesOf(w)[i].rate_id = call[w].data.shipping_rate_id

\* the call of w was rejected with the code and has inserted no order
RejectedWith(w, code) ==
    /\ Returned(w)
    /\ call[w].result.error = code
    /\ "insert" \notin call[w].work

\* the quote of the call has no rates: the call is not rejected over
\* shipping, and an order it creates has no shipping line
RateIgnored(w) ==
    /\ Returned(w) =>
           call[w].result.error \notin {"eva_missing_shipping",
                                        "eva_invalid_shipping_rate"}
    /\ Created(w) => orders[call[w].result.order_id].shipping = NoValue

QuoteArgsError(data) ==
    IF \E i \in 1..Len(data.items) : data.items[i].quantity < 1
    THEN "rest_invalid_param"
    ELSE ""

\* POST /quote: the schema check, then EVA_REST_Controller::create_quote
PostQuote(data) ==
    IF QuoteArgsError(data) # ""
    THEN /\ qout' = WP_Error(QuoteArgsError(data), 400)
         /\ UNCHANGED <<now, products, tax_enabled, transients, next_quote, qin,
                        orders, call, ncalls, nchanges, gout, aside>>
    ELSE CreateQuote(data)

\* the lines a client may send: product ids and quantities of either sign
IntakeItems ==
    [product_id : {-1, 0, 1, 2}, variation_id : {0}, quantity : {-1, 0, 1, MaxQty},
     meta : {NoValue}]

IntakeRequests ==
    [items : SeqsUpTo(IntakeItems, MaxItems), coupons : {<<>>},
     shipping_address : {NoValue}, customer_id : {0}]

\* The states of product 1 in the shop: published or not, purchasable or
\* not; stock not managed, in or out of stock; or stock managed, with a
\* quantity or none, with or without backorders, and the stock status
\* WooCommerce derives from them.
IntakeProducts ==
    {[InitialCatalog[1] EXCEPT !.exists = e, !.purchasable = p,
                               !.manage_stock = FALSE, !.stock_quantity = NoValue,
                               !.backorders = FALSE, !.in_stock = s] :
        e \in BOOLEAN, p \in BOOLEAN, s \in BOOLEAN}
    \cup
    {[InitialCatalog[1] EXCEPT !.exists = e, !.purchasable = p,
                               !.manage_stock = TRUE, !.stock_quantity = q,
                               !.backorders = b,
                               !.in_stock = (b \/ (q # NoValue /\ q[1] > 0))] :
        e \in BOOLEAN, p \in BOOLEAN, b \in BOOLEAN,
        q \in {NoValue} \cup {<<n>> : n \in 0..MaxStock}}

IntakeCatalogs ==
    {[id \in ProductIds |-> IF id = 1 THEN product ELSE InitialCatalog[id]] :
        product \in IntakeProducts}

IInit ==
    /\ now = 0
    /\ products \in IntakeCatalogs
    /\ tax_enabled = FALSE
    /\ transients = <<>>
    /\ next_quote = 0
    /\ qin \in IntakeRequests
    /\ qout = NoValue
    /\ orders = <<>>
    /\ call = [w \in Workers |-> IdleCall]
    /\ ncalls = 0
    /\ nchanges = 0
    /\ gout = NoValue
    /\ rin = NoValue
    /\ rout = NoValue
    /\ permit = NoValue
    /\ ClientIdle

INext == PostQuote(qin)

IntakeSpec == IInit /\ [][INext]_vars

\* the request was answered
Posted == qout # NoValue

\* the product a line of the request names, when its id is that of a product
Named(item) == wc_get_product(products, item.product_id)

\* the request is well formed and every product it names exists and is
\* purchasable
Purchasable(data) ==
    /\ data.items # <<>>
    /\ \A i \in 1..Len(data.items) :
          /\ data.items[i].product_id > 0
          /\ data.items[i].quantity >= 1
          /\ Named(data.items[i]) # NoValue
          /\ Named(data.items[i]).purchasable

\* the product manages stock, does not allow backorders and has a stock
\* quantity below the quantity asked for
ShortOfStock(product, quantity) ==
    /\ product.manage_stock
    /\ ~ product.backorders
    /\ product.stock_quantity # NoValue
    /\ product.stock_quantity[1] < quantity

\* the quote of the answer is the one in the store
IssuedAndStored ==
    /\ qout.error = ""
    /\ qout.quote.quote_id \in DOMAIN transients
    /\ transients[qout.quote.quote_id].value.quote = qout.quote

\* C16: a request whose products all exist and are purchasable gets a quote,
\* issued and stored, whatever the stock levels; the quote has one
\* stock_status entry per line and a line that is short of stock has
\* ok = false there.
C16_StockNeverRejects ==
    (Posted /\ Purchasable(qin)) =>
        /\ IssuedAndStored
        /\ Len(qout.quote.stock_status) = Len(qin.items)
        /\ \A i \in 1..Len(qin.items) :
              ShortOfStock(Named(qin.items[i]), qin.items[i].quantity) =>
                  ~ qout.quote.stock_status[i].ok

\* a quote was issued for a line of a product with no stock left
C16_QuoteWithShortLine ==
    /\ Posted
    /\ Purchasable(qin)
    /\ IssuedAndStored
    /\ \E i \in 1..Len(qin.items) :
          /\ ShortOfStock(Named(qin.items[i]), qin.items[i].quantity)
          /\ Named(qin.items[i]).stock_quantity = <<0>>
          /\ ~ qout.quote.stock_status[i].ok

\* the product a stock_status entry is about
StockProduct(entry) == products[entry.product_id]

InvalidRequest(data) ==
    \/ data.items = <<>>
    \/ \E i \in 1..Len(data.items) :
          data.items[i].product_id <= 0 \/ data.items[i].quantity < 1

\* C18: a request with no items, or with an item whose product_id is not
\* positive or whose quantity is below 1, is rejected and no quote is issued
\* or stored.
C18_InvalidRequestRejected ==
    (Posted /\ InvalidRequest(qin)) =>
        /\ qout.error # ""
        /\ transients = <<>>
        /\ next_quote = 0

\* --------------------------------------------------- the store of quotes
\* The shop already holds a quote, issued at time 0 for one unit of
\* product 2 under an id that is none of those generated later.
EarlierRequest ==
    [items |-> <<[product_id |-> 2, variation_id |-> 0, quantity |-> 1,
                  meta |-> NoValue]>>,
     coupons |-> <<>>, shipping_address |-> NoValue, customer_id |-> 0]

EarlierId == generate_quote_id(MaxQuotes + 1)

\* the quote create_quote returned for EarlierRequest
EarlierQuote ==
    [quote_id |-> EarlierId,
     expires_at |-> QUOTE_TTL,
     line_items |-> <<[product_id |-> 2, variation_id |-> 0, quantity |-> 1,
                       unit_price |-> 1010, line_total |-> 1010, line_tax |-> 0,
                       meta |-> NoValue]>>,
     coupons |-> <<>>,
     shipping_rates |-> <<>>,
     totals |-> [subtotal |-> 1010, discount |-> 0, shipping |-> 0, tax |-> 0,
                 total |-> 1010],
     stock_status |-> <<[product_id |-> 2, available |-> PHP_INT_MAX,
                         requested |-> 1, ok |-> TRUE]>>]

\* the transient store_quote wrote for it
EarlierStore ==
    [k \in {EarlierId} |->
        [value |-> [quote |-> EarlierQuote,
                    line_items_raw |->
                        <<[product_id |-> 2, variation_id |-> 0, quantity |-> 1,
                           unit_price |-> FloatOfMinor(1010),
                           line_total |-> FloatOfMinor(1010),
                           meta |-> NoValue, tax_class |-> ""]>>,
                    shipping_address |-> NoValue,
                    coupon_codes |-> <<>>,
                    customer_id |-> 0],
         timeout |-> QUOTE_TTL]]

\* the earlier quote is stored as create_quote and store_quote leave it
EarlierAsIssued ==
    EarlierStore =
        store_quote(<<>>, EarlierId,
                    create_quote(EarlierRequest, InitialCatalog, FALSE, 0, MaxQuotes).data,
                    0)

TInit ==
    /\ now = 0
    /\ products = InitialCatalog
    /\ tax_enabled = FALSE
    /\ transients = EarlierStore
    /\ next_quote = 0
    /\ qin = NoRequest
    /\ qout = NoValue
    /\ orders = <<>>
    /\ call = [w \in Workers |-> IdleCall]
    /\ ncalls = 0
    /\ nchanges = 0
    /\ gout = NoValue
    /\ rin = NoValue
    /\ rout = NoValue
    /\ permit = NoValue
    /\ ClientIdle

TNext ==
    \/ \E data \in PipelineQuoteRequests : CreateQuote(data)
    \/ \E quote_id \in 1..(MaxQuotes + 1) : GetQuote(quote_id)
    \/ \E data \in OrderRequests : Begin("w1", data)
    \/ GetQuoteData("w1")
    \/ ValidateStock("w1")
    \/ InsertOrder("w1")
    \/ SaveOrder("w1")
    \/ ReduceStock("w1")
    \/ DeleteQuote("w1")
    \/ Tick
    \/ \E p \in StockedProducts, q \in 0..MaxStock : SetStock(p, q)

StoreSpec == TInit /\ [][TNext]_vars

\* quote k is stored and its lifetime has not ended
Live(k) == k \in DOMAIN transients /\ now < transients[k].timeout

\* a step leaves a live quote as it is, unless it is the return of a
\* create_order call that has created an order from that quote
KeptOrConsumed(k) ==
    IF k \in DOMAIN transients'
    THEN transients'[k] = transients[k]
    ELSE \E w \in Workers :
            /\ call[w].pc = "delete"
            /\ call[w].data.quote_id = k
            /\ call'[w].pc = "done"
            /\ call'[w].result.error = ""
            /\ call'[w].result.created

\* a quote that a step stores is the quote create_quote returns in that
\* step, and its lifetime ends at its expires_at
StoredAsReturned(k) ==
    /\ qout'.error = ""
    /\ qout'.quote.quote_id = k
    /\ transients'[k].value.quote = qout'.quote
    /\ transients'[k].timeout = qout'.quote.expires_at

\* a get_quote answered in this step, for a live quote, returns the quote
\* as it is stored
ReadAsStored ==
    gout' # gout =>
        LET k == gout'.quote_id
        IN  /\ Live(k) => gout'.error = ""
            /\ gout'.error = "" =>
                   k \in DOMAIN transients /\ gout'.quote = transients[k].value.quote

\* C19: a stored quote is immutable.  Every step leaves each live quote in
\* the store unchanged, except the return of a successful create_order,
\* which removes its own quote; a quote enters the store as create_quote
\* returned it; and get_quote of a live quote returns it as stored.  So
\* from its creation to its expiry or deletion get_quote returns exactly
\* what create_quote returned, and no create_quote, get_quote or failed
\* create_order changes or removes a stored quote.
C19_QuoteImmutable ==
    [][/\ \A k \in DOMAIN transients : Live(k) => KeptOrConsumed(k)
       /\ \A k \in DOMAIN transients' \ DOMAIN transients : StoredAsReturned(k)
       /\ ReadAsStored]_vars

\* a quote was created beside the earlier one (itself a quote as
\* create_quote stores it), a create_order on it failed
\* after reading it, and get_quote then returned the quote as create_quote
\* had returned it, the earlier quote still being stored
C19_ReadAfterFailedOrder ==
    /\ EarlierAsIssued
    /\ qout # NoValue
    /\ qout.error = ""
    /\ gout # NoValue
    /\ gout.error = ""
    /\ gout.quote = qout.quote
    /\ EarlierId \in DOMAIN transients
    /\ \E w \in Workers :
          Returned(w) /\ ReadQuote(w) /\ call[w].result.error # ""

\* ------------------------------------------------------------ API permission
\* Text is a sequence of tokens; ":" and " " are the colon and the space.
\* sanitize_text_field(): white space around the text is stripped
sanitize_text_field(text) == SelectSeq(text, LAMBDA c : c # " ")

\* wc_api_hash(): a keyed hash, taken as one to one
wc_api_hash(text) == <<"hmac">> \o text

\* hash_equals()
hash_equals(known, given) == known = given

\* the rows of woocommerce_api_keys
ApiKeys ==
    {[key_id |-> 1, user_id |-> 11, permissions |-> "read",
      consumer_key |-> wc_api_hash(<<"ck_r">>), consumer_secret |-> <<"cs_r">>],
     [key_id |-> 2, user_id |-> 12, permissions |-> "write",
      consumer_key |-> wc_api_hash(<<"ck_w">>), consumer_secret |-> <<"cs_w">>],
     [key_id |-> 3, user_id |-> 13, permissions |-> "read_write",
      consumer_key |-> wc_api_hash(<<"ck_rw">>), consumer_secret |-> <<"cs_rw">>]}

\* $wpdb->get_row( ... WHERE consumer_key = %s ): the row, or NoValue
get_row(table, hashed) ==
    IF \E key \in table : key.consumer_key = hashed
    THEN CHOOSE key \in table : key.consumer_key = hashed
    ELSE NoValue

\* explode( ':', credentials, 2 ): the text before the first colon and the
\* text after it
explode(credentials) ==
    LET at == CHOOSE i \in 1..Len(credentials) :
                  /\ credentials[i] = ":"
                  /\ \A j \in 1..(i - 1) : credentials[j] # ":"
    IN  [consumer_key |-> SubSeq(credentials, 1, at - 1),
         consumer_secret |-> SubSeq(credentials, at + 1, Len(credentials))]

\* the routes of register_routes
Routes ==
    {[route |-> "/quote", method |-> "POST", callback |-> "create_quote",
      permission_callback |-> "check_api_permission"],
     [route |-> "/quote/{id}", method |-> "GET", callback |-> "get_quote",
      permission_callback |-> "check_api_permission"],
     [route |-> "/coupon/validate", method |-> "POST", callback |-> "validate_coupon",
      permission_callback |-> "check_api_permission"],
     [route |-> "/order", method |-> "POST", callback |-> "create_order",
      permission_callback |-> "check_api_permission"],
     [route |-> "/health", method |-> "GET", callback |-> "health_check",
      permission_callback |-> "__return_true"]}

\* the credentials of a request: those of a Basic Authorization header that
\* has a colon, else the query parameters
RequestCredentials(request) ==
    LET auth_header == request.authorization
        basic == IF /\ auth_header # NoValue
                    /\ auth_header.scheme = "Basic"
                    /\ auth_header.credentials # <<>>
                    /\ \E i \in 1..Len(auth_header.credentials) :
                           auth_header.credentials[i] = ":"
                 THEN explode(auth_header.credentials)
                 ELSE [consumer_key |-> <<>>, consumer_secret |-> <<>>]
    IN  IF basic.consumer_key = <<>>
        THEN [consumer_key |-> request.consumer_key,
              consumer_secret |-> request.consumer_secret]
        ELSE basic

\* the permission check that never compares the secret
check_api_permission_key_only(request, table) ==
    LET given == RequestCredentials(request)
        key == get_row(table, wc_api_hash(sanitize_text_field(given.consumer_key)))
    IN  IF given.consumer_key = <<>> \/ given.consumer_secret = <<>>
        THEN WP_Error("eva_unauthorized", 401)
        ELSE IF key = NoValue THEN WP_Error("eva_invalid_api_key", 401)
        ELSE IF key.permissions = "read"
                /\ request.method \notin {"GET", "HEAD", "OPTIONS"}
        THEN WP_Error("eva_insufficient_permissions", 403)
        ELSE [error |-> "", user_id |-> key.user_id]

\* [error |-> "", user_id |-> the user of the key] when permitted, else the
\* error
check_api_permission(request, table) ==
    LET given == RequestCredentials(request)
        key == get_row(table, wc_api_hash(sanitize_text_field(given.consumer_key)))
    IN  IF given.consumer_key = <<>> \/ given.consumer_secret = <<>>
        THEN WP_Error("eva_unauthorized", 401)
        ELSE IF key = NoValue THEN WP_Error("eva_invalid_api_key", 401)
        ELSE IF ~ hash_equals(key.consumer_secret, given.consumer_secret)
        THEN WP_Error("eva_invalid_api_secret", 401)
        ELSE IF key.permissions = "read"
                /\ request.method \notin {"GET", "HEAD", "OPTIONS"}
        THEN WP_Error("eva_insufficient_permissions", 403)
        ELSE [error |-> "", user_id |-> key.user_id]

\* The REST server calls the permission callback of the route; the
\* callback of the route runs only when permit has no error.
CheckPermission ==
    /\ permit = NoValue
    /\ permit' = IF rin.permission_callback = "__return_true"
                 THEN [error |-> "", user_id |-> 0]
                 ELSE check_api_permission(rin, ApiKeys)
    /\ UNCHANGED <<pipeline, rin, rout, client>>

\* the request has been let through to the callback
Permitted(callback) ==
    permit # NoValue /\ permit.error = "" /\ rin.callback = callback

\* GET /health
HealthCheck ==
    /\ rout' = [error |-> "", status |-> "ok"]
    /\ UNCHANGED <<pipeline, rin, permit, client>>

\* the text of a key or a secret a client may send; NoValue when it sends
\* none
KeyTexts == {NoValue, <<"ck_r">>, <<"ck_w">>, <<"ck_rw">>, <<"ck_rw", " ">>, <<"ck_x">>}

SecretTexts == {NoValue, <<"cs_r">>, <<"cs_w">>, <<"cs_rw">>}

\* Authorization headers: none, a Bearer token, Basic with key:secret, and
\* Basic with no colon
AuthorizationHeaders ==
    {NoValue, [scheme |-> "Bearer", credentials |-> <<"ck_rw", ":", "cs_rw">>]}
    \cup {[scheme |-> "Basic", credentials |-> k \o <<":">> \o s] :
              k \in KeyTexts, s \in SecretTexts}
    \cup {[scheme |-> "Basic", credentials |-> <<"ck_rw">>]}

ApiRequests ==
    {[route |-> r.route, method |-> r.method, callback |-> r.callback,
      permission_callback |-> r.permission_callback,
      authorization |-> h, consumer_key |-> k, consumer_secret |-> s] :
        r \in Routes, h \in AuthorizationHeaders,
        k \in {NoValue, <<"ck_r">>, <<"ck_rw">>},
        s \in {NoValue, <<"cs_r">>, <<"cs_rw">>}}

\* the bodies the requests carry: an order for the earlier quote, a coupon
\* for one unit of product 1
ApiOrderRequest ==
    [quote_id |-> EarlierId, idempotency_key |-> "",
     shipping_rate_id |-> "", billing_address |-> [country |-> "US"],
     payment_method |-> "cod", set_paid |-> FALSE]

ApiCouponRequest ==
    [code |-> "SAVE10",
     items |-> <<[product_id |-> 1, variation_id |-> 0, quantity |-> 1,
                  meta |-> NoValue]>>]

AInit ==
    /\ now = 0
    /\ products = InitialCatalog
    /\ tax_enabled = FALSE
    /\ transients = EarlierStore
    /\ next_quote = 0
    /\ qin = NoRequest
    /\ qout = NoValue
    /\ orders = <<>>
    /\ call = [w \in Workers |-> IdleCall]
    /\ ncalls = 0
    /\ nchanges = 0
    /\ gout = NoValue
    /\ rin \in ApiRequests
    /\ rout = NoValue
    /\ permit = NoValue
    /\ ClientIdle

ANext ==
    \/ CheckPermission
    \/ Permitted("create_quote") /\ \E data \in PipelineQuoteRequests : CreateQuote(data)
    \/ Permitted("get_quote") /\ GetQuote(EarlierId)
    \/ Permitted("validate_coupon") /\ ValidateCoupon(ApiCouponRequest)
    \/ Permitted("create_order") /\ Begin("w1", ApiOrderRequest)
    \/ GetQuoteData("w1")
    \/ ValidateStock("w1")
    \/ InsertOrder("w1")
    \/ SaveOrder("w1")
    \/ ReduceStock("w1")
    \/ DeleteQuote("w1")
    \/ Permitted("health_check") /\ HealthCheck

AuthSpec == AInit /\ [][ANext]_vars

\* the callback of the request has run
Served ==
    \/ qout # NoValue
    \/ gout # NoValue
    \/ rout # NoValue
    \/ Started("w1")

\* the stored API keys that the consumer key and secret of the request match
MatchingKeys ==
    LET given == RequestCredentials(rin)
    IN  {key \in ApiKeys :
            /\ key.consumer_key = wc_api_hash(sanitize_text_field(given.consumer_key))
            /\ key.consumer_secret = given.consumer_secret}

\* the request is to a write endpoint
WriteEndpoint == rin.method = "POST"

\* C20: a callback runs only for a request that was permitted.  On the
\* quote, coupon and order endpoints a request whose consumer key and secret
\* match no stored API key gets 401; one that matches a key with permission
\* read gets 403 insufficient_permissions on a write endpoint (POST /quote,
\* POST /coupon/validate, POST /order); every other request with a matching
\* key is permitted.  GET /health is permitted whatever the request carries.
C20_ApiPermission ==
    /\ Served => (permit # NoValue /\ permit.error = "")
    /\ (permit # NoValue /\ rin.route # "/health") =>
          /\ MatchingKeys = {} => (permit.error # "" /\ permit.status = 401)
          /\ (/\ MatchingKeys # {}
              /\ WriteEndpoint
              /\ \A key \in MatchingKeys : key.permissions = "read") =>
                 /\ permit.error = "eva_insufficient_permissions"
                 /\ permit.status = 403
          /\ (/\ MatchingKeys # {}
              /\ \/ ~ WriteEndpoint
                 \/ \E key \in MatchingKeys : key.permissions # "read") =>
                 permit.error = ""
    /\ (permit # NoValue /\ rin.route = "/health") => permit.error = ""

\* POST /order with the key and secret of a read key was refused with 403
\* and no create_order call started
C20_ReadKeyRefusedWrite ==
    /\ rin.route = "/order"
    /\ \E key \in MatchingKeys : key.permissions = "read"
    /\ permit # NoValue
    /\ permit.error = "eva_insufficient_permissions"
    /\ ~ Served

\* ------------------------------------------------------ the client's Cache
\* everything of the shop but the clock
server == <<products, tax_enabled, transients, next_quote, qin, qout, orders,
            call, ncalls, nchanges, gout, rin, rout, permit>>

\* the shop as the terminal client leaves it: untouched
ServerIdle ==
    /\ products = InitialCatalog
    /\ tax_enabled = FALSE
    /\ transients = <<>>
    /\ next_quote = 0
    /\ qin = NoRequest
    /\ qout = NoValue
    /\ orders = <<>>
    /\ call = [w \in Workers |-> IdleCall]
    /\ ncalls = 0
    /\ nchanges = 0
    /\ gout = NoValue
    /\ rin = NoValue
    /\ rout = NoValue
    /\ permit = NoValue

Keys == {"k1", "k2"}

Values == {1, 2}

Goroutines == {"g1", "g2"}

MaxOps == 3        \* calls of the client (Cache, local cart) in a run

CacheTTL == 60     \* the ttl of the cache, in seconds

Zero == 0          \* var zero V

\* time.Time.After and time.Time.Add
After(t, u) == t > u

Add(t, d) == t + d

\* New( ttl ): no items, the mutex unlocked
New(ttl) ==
    [items |-> <<>>, ttl |-> ttl, mu |-> [writer |-> "", readers |-> {}]]

\* the lookup that never looks at the expiry
CacheGetNoExpiry(items, key, t) ==
    IF key \notin DOMAIN items THEN [value |-> Zero, ok |-> FALSE]
    ELSE [value |-> items[key].value, ok |-> TRUE]

\* the body of Get, at time t: (value, ok)
CacheGet(items, key, t) ==
    IF key \notin DOMAIN items THEN [value |-> Zero, ok |-> FALSE]
    ELSE IF After(t, items[key].expiresAt) THEN [value |-> Zero, ok |-> FALSE]
    ELSE [value |-> items[key].value, ok |-> TRUE]

\* c.items[key] = entry{ value, expiresAt }
CacheSet(items, key, value, expiresAt) ==
    [k \in DOMAIN items \cup {key} |->
        IF k = key THEN [value |-> value, expiresAt |-> expiresAt] ELSE items[k]]

\* delete( c.items, key )
CacheDelete(items, key) ==
    [k \in DOMAIN items \ {key} |-> items[k]]

\* c.items = make( map )
CacheClear(items) == <<>>

\* the sweep that also removes the entries that expire now
CacheCleanupAtExpiry(items, t) ==
    [k \in {j \in DOMAIN items : t < items[j].expiresAt} |-> items[k]]

\* the loop of Cleanup at time t
CacheCleanup(items, t) ==
    [k \in {j \in DOMAIN items : ~ After(t, items[j].expiresAt)} |-> items[k]]

\* len( c.items )
CacheLen(items) == Cardinality(DOMAIN items)

\* the lock that is always granted
LockableAlways(mu) == TRUE

\* sync.RWMutex: Lock waits for the writer and the readers to leave, RLock
\* for the writer
Lockable(mu) == mu.writer = "" /\ mu.readers = {}

RLockable(mu) == mu.writer = ""

IdleGoroutine ==
    [pc |-> "idle", op |-> "", key |-> "", value |-> Zero, local |-> NoValue,
     at |-> 0, ret |-> NoValue, seen |-> NoValue, prior |-> {}]

\* the calls a goroutine may make
CacheCalls ==
    {[op |-> "Get", key |-> k, value |-> Zero] : k \in Keys}
    \cup {[op |-> "Set", key |-> k, value |-> v] : k \in Keys, v \in Values}
    \cup {[op |-> "Delete", key |-> k, value |-> Zero] : k \in Keys}
    \cup {[op |-> o, key |-> "", value |-> Zero] : o \in {"Clear", "Cleanup", "Len"}}

\* a goroutine calls a method of the Cache; prior is the history: the Set
\* calls that have returned by now
Invoke(g, c) ==
    /\ gos[g].pc \in {"idle", "done"}
    /\ hist.calls < MaxOps
    /\ gos' = [gos EXCEPT ![g] = [IdleGoroutine EXCEPT
                                     !.pc = "lock", !.op = c.op, !.key = c.key,
                                     !.value = c.value, !.prior = hist.returned]]
    /\ hist' = [hist EXCEPT !.calls = @ + 1]
    /\ UNCHANGED <<now, server, cache, ui>>

\* c.mu.RLock() in Get and Len, c.mu.Lock() in the others
Acquire(g) ==
    /\ gos[g].pc = "lock"
    /\ IF gos[g].op \in {"Get", "Len"}
       THEN /\ RLockable(cache.mu)
            /\ cache' = [cache EXCEPT !.mu.readers = @ \cup {g}]
       ELSE /\ Lockable(cache.mu)
            /\ cache' = [cache EXCEPT !.mu.writer = g]
    /\ gos' = [gos EXCEPT ![g].pc = "body"]
    /\ UNCHANGED <<now, server, hist, ui>>

\* the history after a Delete, a Clear or a Cleanup at time t
Forget(sets, keys) ==
    [k \in Keys |-> IF k \in keys /\ sets[k] # NoValue
                    THEN [sets[k] EXCEPT !.live = FALSE] ELSE sets[k]]

Sweep(sets, t, ttl) ==
    [k \in Keys |-> IF sets[k] # NoValue /\ sets[k].at + ttl < t
                    THEN [sets[k] EXCEPT !.swept = TRUE] ELSE sets[k]]

\* The body of the method, under the lock.  Set first evaluates the entry
\* (nowFunc) and reads the map it is to assign to; the assignment is the
\* next step.  seen is the history the call met.
Body(g) ==
    /\ gos[g].pc = "body"
    /\ LET op == gos[g].op
           key == gos[g].key
           met == [gos EXCEPT ![g].seen = hist.sets, ![g].at = now]
       IN  CASE op = "Get" ->
                  /\ gos' = [met EXCEPT ![g].pc = "unlock",
                                       ![g].ret = CacheGet(cache.items, key, now)]
                  /\ UNCHANGED <<cache, hist>>
             [] op = "Len" ->
                  /\ gos' = [met EXCEPT ![g].pc = "unlock",
                                       ![g].ret = CacheLen(cache.items)]
                  /\ UNCHANGED <<cache, hist>>
             [] op = "Set" ->
                  /\ gos' = [met EXCEPT ![g].pc = "store", ![g].local = cache.items]
                  /\ UNCHANGED <<cache, hist>>
             [] op = "Delete" ->
                  /\ cache' = [cache EXCEPT !.items = CacheDelete(@, key)]
                  /\ hist' = [hist EXCEPT !.sets = Forget(@, {key})]
                  /\ gos' = [met EXCEPT ![g].pc = "unlock"]
             [] op = "Clear" ->
                  /\ cache' = [cache EXCEPT !.items = CacheClear(@)]
                  /\ hist' = [hist EXCEPT !.sets = Forget(@, Keys)]
                  /\ gos' = [met EXCEPT ![g].pc = "unlock"]
             [] op = "Cleanup" ->
                  /\ cache' = [cache EXCEPT !.items = CacheCleanup(@, now)]
                  /\ hist' = [hist EXCEPT !.sets = Sweep(@, now, cache.ttl)]
                  /\ gos' = [met EXCEPT ![g].pc = "unlock"]
    /\ UNCHANGED <<now, server, ui>>

\* the assignment of Set: the entry enters the map that was read
Store(g) ==
    /\ gos[g].pc = "store"
    /\ cache' = [cache EXCEPT !.items =
                    CacheSet(gos[g].local, gos[g].key, gos[g].value,
                             Add(gos[g].at, cache.ttl))]
    /\ hist' = [hist EXCEPT !.sets[gos[g].key] =
                   [value |-> gos[g].value, at |-> gos[g].at,
                    live |-> TRUE, swept |-> FALSE]]
    /\ gos' = [gos EXCEPT ![g].pc = "unlock"]
    /\ UNCHANGED <<now, server, ui>>

\* the deferred Unlock or RUnlock; the call returns
Release(g) ==
    /\ gos[g].pc = "unlock"
    /\ cache' = [cache EXCEPT
                    !.mu.readers = @ \ {g},
                    !.mu.writer = IF @ = g THEN "" ELSE @]
    /\ gos' = [gos EXCEPT ![g].pc = "done"]
    /\ hist' = [hist EXCEPT !.returned =
                   IF gos[g].op = "Set"
                   THEN @ \cup {[key |-> gos[g].key, value |-> gos[g].value]}
                   ELSE @]
    /\ UNCHANGED <<now, server, ui>>

\* time passes, one ttl at a time
Advance ==
    /\ now < MaxTicks * CacheTTL
    /\ now' = now + CacheTTL
    /\ UNCHANGED <<server, client>>

KInit ==
    /\ now = 0
    /\ ServerIdle
    /\ cache = New(CacheTTL)
    /\ gos = [g \in Goroutines |-> IdleGoroutine]
    /\ hist = [sets |-> [k \in Keys |-> NoValue], calls |-> 0, returned |-> {}]
    /\ ui = NoValue

KNext ==
    \/ \E g \in Goroutines, c \in CacheCalls : Invoke(g, c)
    \/ \E g \in Goroutines : Acquire(g)
    \/ \E g \in Goroutines : Body(g)
    \/ \E g \in Goroutines : Store(g)
    \/ \E g \in Goroutines : Release(g)
    \/ Advance

CacheSpec == KInit /\ [][KNext]_vars

\* ------------------------------------------------------ claims on the Cache
\* the call of g has run its body
Ran(g, op) == gos[g].op = op /\ gos[g].pc \in {"unlock", "done"}

\* What the history promises a Get at time t: the value of the most recent
\* Set of the key, when no Delete or Clear came after it and t is not past
\* the time of that Set plus the ttl; else the zero value and false.
Promised(last, t, ttl) ==
    IF last # NoValue /\ last.live /\ ~ (t > last.at + ttl)
    THEN [value |-> last.value, ok |-> TRUE]
    ELSE [value |-> Zero, ok |-> FALSE]

\* C21: Get(k) returns (v, true) exactly when v is the value of the most
\* recent Set(k, v), no Delete(k) or Clear came after that Set and the time
\* is not past that Set's time plus the ttl, and (zero, false) otherwise; a
\* later Set replaces the value and restarts the ttl; Delete of a key that
\* is not stored leaves the items as they are.
C21_GetReturnsLastSet ==
    /\ [](\A g \in Goroutines :
             Ran(g, "Get") =>
                 gos[g].ret = Promised(gos[g].seen[gos[g].key], gos[g].at, cache.ttl))
    /\ [][\A g \in Goroutines :
             (/\ gos[g].op = "Delete"
              /\ gos[g].pc = "body"
              /\ gos'[g].pc = "unlock"
              /\ gos[g].key \notin DOMAIN cache.items) =>
                 cache'.items = cache.items]_vars

\* a Get found the value of a Set made after time 0, at the very end of
\* that Set's ttl
C21_HitAtEndOfRestartedTtl ==
    \E g \in Goroutines :
        /\ Ran(g, "Get")
        /\ gos[g].ret.ok
        /\ gos[g].seen[gos[g].key].at > 0
        /\ gos[g].at = gos[g].seen[gos[g].key].at + cache.ttl
        /\ gos[g].ret.value = gos[g].seen[gos[g].key].value

\* the keys the history holds stored: set, not deleted or cleared since, and
\* not removed by a Cleanup
Kept(sets) ==
    {k \in Keys : sets[k] # NoValue /\ sets[k].live /\ ~ sets[k].swept}

\* the step is the body of the method op, run by g
BodyOf(g, op) ==
    gos[g].op = op /\ gos[g].pc = "body" /\ gos'[g].pc = "unlock"

\* C22: Cleanup removes exactly the entries whose expiry is before the
\* current time and leaves every other entry with its value and expiry;
\* Len is the number of entries stored, expired ones that no Cleanup has
\* removed included, and there is none after Clear.
C22_CleanupAndLen ==
    /\ [][\A g \in Goroutines :
             /\ BodyOf(g, "Cleanup") =>
                   /\ DOMAIN cache'.items \subseteq DOMAIN cache.items
                   /\ \A k \in DOMAIN cache.items :
                         IF cache.items[k].expiresAt < now
                         THEN k \notin DOMAIN cache'.items
                         ELSE /\ k \in DOMAIN cache'.items
                              /\ cache'.items[k] = cache.items[k]
             /\ BodyOf(g, "Clear") => DOMAIN cache'.items = {}]_vars
    /\ [](\A g \in Goroutines :
             Ran(g, "Len") => gos[g].ret = Cardinality(Kept(gos[g].seen)))

\* after a Cleanup that found nothing to remove, Len counted an entry that
\* had expired since
C22_LenCountsExpired ==
    \E g \in Goroutines :
        /\ Ran(g, "Len")
        /\ \E h \in Goroutines : Ran(h, "Cleanup")
        /\ gos[g].ret = 1
        /\ \E k \in Kept(gos[g].seen) :
              gos[g].seen[k].at + cache.ttl < gos[g].at

\* ------------------------------------------- the Cache under concurrent use
\* Goroutines that only Set and Get, as in TestCacheConcurrency; the clock
\* stands still, well within the ttl.
RaceCalls == {c \in CacheCalls : c.op \in {"Get", "Set"}}

RNext ==
    \/ \E g \in Goroutines, c \in RaceCalls : Invoke(g, c)
    \/ \E g \in Goroutines : Acquire(g)
    \/ \E g \in Goroutines : Body(g)
    \/ \E g \in Goroutines : Store(g)
    \/ \E g \in Goroutines : Release(g)

RaceSpec == KInit /\ [][RNext]_vars

\* the writes made so far: the Set calls that have returned and those that
\* have assigned their entry
Written ==
    hist.returned \cup
    {[key |-> gos[h].key, value |-> gos[h].value] :
        h \in {j \in Goroutines : Ran(j, "Set")}}

\* C23: a Get called after a Set on its key has returned finds the key (no
\* write is lost, whatever other calls ran at the same time), and the value
\* a Get returns with true is a value that a Set has written to that key,
\* so with one value per key it is the key's own value; a Get that runs
\* while Sets on its key are under way returns a miss or one such value.
C23_AtomicUnderConcurrency ==
    \A g \in Goroutines :
        Ran(g, "Get") =>
            /\ (\E s \in gos[g].prior : s.key = gos[g].key) => gos[g].ret.ok
            /\ gos[g].ret.ok =>
                  [key |-> gos[g].key, value |-> gos[g].ret.value] \in Written
            /\ ~ gos[g].ret.ok => gos[g].ret.value = Zero

\* a Get returned the value of its key, set by a call that had returned,
\* while another goroutine was waiting to Set that key
C23_GetBesideSet ==
    \E g, h \in Goroutines :
        /\ gos[g].op = "Get"
        /\ gos[g].pc = "unlock"
        /\ gos[g].ret.ok
        /\ \E s \in gos[g].prior : s.key = gos[g].key
        /\ gos[h].op = "Set"
        /\ gos[h].key = gos[g].key
        /\ gos[h].pc = "lock"

\* ====================================================================
\* the terminal client's local cart (internal/tui/local_cart.go)
\* ====================================================================

\* a Go map[string]string: nil or made, with its key/value pairs
NilMeta == [nil |-> TRUE, pairs |-> {}]

\* make(map[string]string)
MakeMeta == [nil |-> FALSE, pairs |-> {}]

\* len(a) of a map
MapLen(a) == Cardinality(a.pairs)

\* b[k] of a map: the zero value "" when the key is absent
MapAt(b, k) ==
    IF \E p \in b.pairs : p[1] = k
    THEN (CHOOSE p \in b.pairs : p[1] = k)[2]
    ELSE ""

\* a comparison that tells a nil map from an empty one
metaEqualDeep(a, b) == a = b

metaEqual(a, b) ==
    IF MapLen(a) # MapLen(b)
    THEN FALSE
    ELSE \A p \in a.pairs : MapAt(b, p[1]) = p[2]

NewLocalCart ==
    [Items |-> <<>>, Coupons |-> <<>>, Quote |-> NoValue,
     SelectedShippingRateID |-> "", SelectedIdx |-> 0]

invalidateQuote(c) ==
    [c EXCEPT !.Quote = NoValue, !.SelectedShippingRateID = ""]

\* the positions (from 0) of the lines that AddItem takes for the item's own
SameLine(c, item) ==
    {i \in 0..(Len(c.Items) - 1) :
        /\ c.Items[i + 1].ProductID = item.ProductID
        /\ c.Items[i + 1].VariationID = item.VariationID
        /\ metaEqual(c.Items[i + 1].Meta, item.Meta)}

Least(S) == CHOOSE i \in S : \A j \in S : i <= j

AddItem(c, item) ==
    IF SameLine(c, item) # {}
    THEN LET i == Least(SameLine(c, item))
         IN  invalidateQuote(
                 [c EXCEPT !.Items[i + 1].Quantity = @ + item.Quantity])
    ELSE invalidateQuote([c EXCEPT !.Items = Append(c.Items, item)])

\* append(c.Items[:index], c.Items[index+1:]...)
Without(items, index) ==
    [i \in 1..(Len(items) - 1) |->
        IF i <= index THEN items[i] ELSE items[i + 1]]

\* a RemoveItem that leaves the selection where it was
RemoveItemKeepsSelection(c, index) ==
    IF index < 0 \/ index >= Len(c.Items)
    THEN [cart |-> c, ok |-> FALSE]
    ELSE [cart |-> invalidateQuote(
                       [c EXCEPT !.Items = Without(c.Items, index)]),
          ok |-> TRUE]

\* RemoveItem: the cart and the value returned
RemoveItem(c, index) ==
    IF index < 0 \/ index >= Len(c.Items)
    THEN [cart |-> c, ok |-> FALSE]
    ELSE LET d == invalidateQuote(
                      [c EXCEPT !.Items = Without(c.Items, index)])
         IN  [cart |-> IF d.SelectedIdx >= Len(d.Items) /\ Len(d.Items) > 0
                       THEN [d EXCEPT !.SelectedIdx = Len(d.Items) - 1]
                       ELSE d,
              ok |-> TRUE]

\* an UpdateQuantity that stores every quantity it is given
UpdateQuantityStoresAny(c, index, quantity) ==
    IF index < 0 \/ index >= Len(c.Items)
    THEN [cart |-> c, ok |-> FALSE]
    ELSE [cart |-> invalidateQuote(
                       [c EXCEPT !.Items[index + 1].Quantity = quantity]),
          ok |-> TRUE]

\* UpdateQuantity: the cart and the value returned
UpdateQuantity(c, index, quantity) ==
    IF index < 0 \/ index >= Len(c.Items)
    THEN [cart |-> c, ok |-> FALSE]
    ELSE IF quantity <= 0
    THEN RemoveItem(c, index)
    ELSE [cart |-> invalidateQuote(
                       [c EXCEPT !.Items[index + 1].Quantity = quantity]),
          ok |-> TRUE]

Clear(c) ==
    [c EXCEPT !.Items = <<>>, !.Coupons = <<>>, !.Quote = NoValue,
              !.SelectedShippingRateID = "", !.SelectedIdx = 0]

\* an AddCoupon that keeps the quote of the cart it changes
AddCouponKeepsQuote(c, code) ==
    IF \E i \in 1..Len(c.Coupons) : c.Coupons[i] = code
    THEN c
    ELSE [c EXCEPT !.Coupons = Append(c.Coupons, code)]

AddCoupon(c, code) ==
    IF \E i \in 1..Len(c.Coupons) : c.Coupons[i] = code
    THEN c
    ELSE invalidateQuote([c EXCEPT !.Coupons = Append(c.Coupons, code)])

\* RemoveCoupon: the first entry equal to the code goes, if there is one
RemoveCoupon(c, code) ==
    LET found == {i \in 0..(Len(c.Coupons) - 1) : c.Coupons[i + 1] = code}
    IN  IF found = {}
        THEN c
        ELSE invalidateQuote(
                 [c EXCEPT !.Coupons = Without(c.Coupons, Least(found))])

SetQuote(c, quote) ==
    [c EXCEPT !.Quote = quote, !.SelectedShippingRateID = ""]

\* QuoteResponse.IsExpired at time t
IsExpired(q, t) == After(t, q.ExpiresAt)

HasQuote(c, t) == c.Quote # NoValue /\ ~ IsExpired(c.Quote, t)

SelectShippingRate(c, rateID) == [c EXCEPT !.SelectedShippingRateID = rateID]

\* QuoteResponse.GetShippingRate: the rate of that id, or nil
GetShippingRate(q, rateID) ==
    IF \E i \in 1..Len(q.ShippingRates) : q.ShippingRates[i] = rateID
    THEN rateID
    ELSE ""

\* GetSelectedShippingRate: "" stands for the nil pointer
GetSelectedShippingRate(c) ==
    IF c.Quote = NoValue \/ c.SelectedShippingRateID = ""
    THEN ""
    ELSE GetShippingRate(c.Quote, c.SelectedShippingRateID)

NeedsShipping(q) == Len(q.ShippingRates) > 0

IsEmpty(c) == Len(c.Items) = 0

\* ItemCount: the total quantity of the lines
RECURSIVE ItemCount(_)
ItemCount(items) ==
    IF items = <<>>
    THEN 0
    ELSE Head(items).Quantity + ItemCount(Tail(items))

\* GetSelectedItem: whether the pointer returned is not nil
HasSelectedItem(c) == ~ (c.SelectedIdx < 0 \/ c.SelectedIdx >= Len(c.Items))

MoveUp(c) ==
    IF c.SelectedIdx > 0 THEN [c EXCEPT !.SelectedIdx = @ - 1] ELSE c

MoveDown(c) ==
    IF c.SelectedIdx < Len(c.Items) - 1
    THEN [c EXCEPT !.SelectedIdx = @ + 1]
    ELSE c

\* ToQuoteItems: the items of a quote request, one for each line
ToQuoteItems(c) ==
    [i \in 1..Len(c.Items) |->
        [product_id |-> c.Items[i].ProductID,
         variation_id |-> c.Items[i].VariationID,
         quantity |-> c.Items[i].Quantity,
         meta |-> c.Items[i].Meta]]

\* ToQuoteRequest
ToQuoteRequest(c, shippingAddress) ==
    [items |-> ToQuoteItems(c), coupons |-> c.Coupons,
     shipping_address |-> shippingAddress]

\* NewLocalCartItemFromProduct, without the names and the price shown
NewLocalCartItemFromProduct(product, variation, quantity, meta) ==
    [ProductID |-> product.ID,
     VariationID |-> IF variation # 0 THEN variation ELSE 0,
     Quantity |-> quantity,
     Meta |-> meta]

\* ====================================================================
\* the terminal client's Model (internal/tui/model.go)
\* ====================================================================

MaxCmds == 1       \* commands of the client in flight

ViewProductList == 0
ViewProductDetails == 1
ViewConfigurator == 2
ViewCart == 3
ViewQuote == 4
ViewPayment == 5
ViewReview == 6
ViewOrderConfirmation == 7

\* the products the shop lists: a variable product with one variation, a
\* simple product with grind options and a simple product without options
ListedProducts ==
    {[ID |-> 1, Type |-> "variable", Attributes |-> {"Size", "Grind Size"}],
     [ID |-> 2, Type |-> "simple", Attributes |-> {"Grind Size"}],
     [ID |-> 3, Type |-> "simple", Attributes |-> {}]}

\* the variations of a product, by their ids
VariationsOf(productID) == IF productID = 1 THEN {11} ELSE {}

\* the quotes the server can answer with
QuoteResponses ==
    {[ExpiresAt |-> QUOTE_TTL, ShippingRates |-> <<"flat_rate:1">>],
     [ExpiresAt |-> QUOTE_TTL, ShippingRates |-> <<>>]}

\* the numbers of enabled payment gateways the shop can answer with
GatewayCounts == {0, 1}

\* the keys pressed
KeyStrokes ==
    {"esc", "backspace", "enter", "c", "a", "o", "s", "+", "-", "d",
     "n", "/", "r", "up", "down", "q"}

IsVariable(p) == p.Type = "variable"

\* GetAttribute(name) != nil && len(attr.Options) > 0
HasOptions(p, name) == name \in p.Attributes

\* the last message was not the Esc key
NoEsc == [esc |-> FALSE, from |-> ViewProductList, cart |-> NewLocalCart]

\* the last message was the Esc key, pressed in this view with this cart
EscIn(m) == [esc |-> TRUE, from |-> m.viewState, cart |-> m.localCart]

NewModel ==
    [viewState |-> ViewProductList,
     products |-> {},
     showSearch |-> FALSE,
     selectedProduct |-> NoValue,
     productVariations |-> {},
     selectedVariation |-> 0,
     selectedGrindSize |-> "",
     configForm |-> "nil",
     configCompleted |-> FALSE,
     localCart |-> NewLocalCart,
     shippingSelectedIdx |-> 0,
     paymentGateways |-> 0,
     paymentSelectedIdx |-> 0,
     addressForm |-> "nil",
     creatingOrder |-> FALSE,
     quit |-> FALSE,
     cmds |-> {"loadProducts"},
     last |-> NoEsc]

\* huh.Form.Update: the states a form can be in after a key; enter either
\* moves within the form or submits it
FormUpdate(form, key) ==
    IF form = "running" /\ key = "enter"
    THEN {"running", "completed"}
    ELSE {form}

\* the first variation of the list
FirstOf(variations) == CHOOSE v \in variations : \A w \in variations : v <= w

extractConfigFormValues(m) ==
    IF m.configForm = "nil" \/ m.selectedProduct = NoValue
    THEN m
    ELSE IF /\ IsVariable(m.selectedProduct)
            /\ m.productVariations # {}
            /\ m.selectedVariation = 0
    THEN [m EXCEPT !.selectedVariation = FirstOf(m.productVariations)]
    ELSE m

addToCart(m) ==
    IF m.selectedProduct = NoValue
    THEN m
    ELSE LET meta == IF m.selectedGrindSize # ""
                     THEN [nil |-> FALSE,
                           pairs |-> {<<"grind", m.selectedGrindSize>>}]
                     ELSE MakeMeta
             item == NewLocalCartItemFromProduct(
                         m.selectedProduct, m.selectedVariation, 1, meta)
         IN  [m EXCEPT !.localCart = AddItem(m.localCart, item)]

initConfigurator(m) ==
    IF m.selectedProduct = NoValue
    THEN m
    ELSE IF ~ IsVariable(m.selectedProduct)
    THEN m
    ELSE [m EXCEPT !.configForm = "running", !.selectedGrindSize = ""]

initSimpleConfigurator(m) ==
    IF m.selectedProduct = NoValue
    THEN m
    ELSE [m EXCEPT !.configForm = "running"]

\* with p the item selected in the list
SelectProduct(m, p) ==
    LET n == [m EXCEPT !.selectedProduct = p,
                       !.viewState = ViewProductDetails,
                       !.configCompleted = FALSE,
                       !.selectedVariation = 0,
                       !.selectedGrindSize = ""]
    IN  IF IsVariable(p)
        THEN [n EXCEPT !.cmds = @ \cup {"loadVariations"}]
        ELSE IF HasOptions(p, "Grind Size")
        THEN initSimpleConfigurator(n)
        ELSE n

handleProductListKeys(m, key) ==
    IF m.showSearch
    THEN CASE key = "enter" ->
                {[m EXCEPT !.showSearch = FALSE,
                           !.cmds = @ \cup {"loadProducts"}]}
           [] key = "esc" -> {[m EXCEPT !.showSearch = FALSE]}
           [] OTHER -> {m}
    ELSE CASE key = "/" -> {[m EXCEPT !.showSearch = TRUE]}
           [] key = "r" -> {[m EXCEPT !.cmds = @ \cup {"loadProducts"}]}
           [] key = "c" ->
                {[m EXCEPT !.viewState = ViewCart,
                           !.localCart.SelectedIdx = 0]}
           [] key = "enter" ->
                IF m.products = {}
                THEN {m}
                ELSE {SelectProduct(m, p) : p \in m.products}
           [] OTHER -> {m}

handleProductDetailsKeys(m, key) ==
    CASE key \in {"esc", "backspace"} ->
            {[m EXCEPT !.viewState = ViewProductList,
                       !.selectedProduct = NoValue,
                       !.productVariations = {}]}
      [] key \in {"c", "enter"} ->
            IF m.selectedProduct = NoValue
            THEN {m}
            ELSE IF /\ IsVariable(m.selectedProduct)
                    /\ m.productVariations # {}
            THEN {[initConfigurator(m) EXCEPT !.viewState = ViewConfigurator]}
            ELSE IF HasOptions(m.selectedProduct, "Grind Size")
            THEN {[initSimpleConfigurator(m) EXCEPT
                       !.viewState = ViewConfigurator]}
            ELSE {m}
      [] OTHER -> {m}

\* the form of the configurator takes the key
ConfigFormKeys(m, key) ==
    IF m.configForm = "nil"
    THEN {m}
    ELSE {IF f = "completed"
          THEN extractConfigFormValues(
                   [m EXCEPT !.configForm = f, !.configCompleted = TRUE])
          ELSE [m EXCEPT !.configForm = f] :
          f \in FormUpdate(m.configForm, key)}

handleConfiguratorKeys(m, key) ==
    CASE key = "esc" ->
            {[m EXCEPT !.viewState = ViewProductDetails,
                       !.configForm = "nil",
                       !.configCompleted = FALSE]}
      [] key = "a" /\ m.configCompleted /\ m.selectedProduct # NoValue ->
            {[addToCart(m) EXCEPT !.viewState = ViewCart]}
      [] OTHER -> ConfigFormKeys(m, key)

handleCartKeys(m, key) ==
    LET c == m.localCart
    IN  CASE key \in {"esc", "backspace"} ->
                {[m EXCEPT !.viewState = ViewProductList]}
          [] key = "up" -> {[m EXCEPT !.localCart = MoveUp(c)]}
          [] key = "down" -> {[m EXCEPT !.localCart = MoveDown(c)]}
          [] key = "+" ->
                IF HasSelectedItem(c)
                THEN {[m EXCEPT !.localCart =
                          UpdateQuantity(c, c.SelectedIdx,
                              c.Items[c.SelectedIdx + 1].Quantity + 1).cart]}
                ELSE {m}
          [] key = "-" ->
                IF HasSelectedItem(c)
                THEN IF c.Items[c.SelectedIdx + 1].Quantity > 1
                     THEN {[m EXCEPT !.localCart =
                              UpdateQuantity(c, c.SelectedIdx,
                                c.Items[c.SelectedIdx + 1].Quantity - 1).cart]}
                     ELSE {m}
                ELSE {m}
          [] key \in {"d", "delete"} ->
                {[m EXCEPT !.localCart = RemoveItem(c, c.SelectedIdx).cart]}
          [] key = "o" ->
                IF ~ IsEmpty(c)
                THEN {[m EXCEPT !.addressForm = "running",
                                !.viewState = ViewQuote]}
                ELSE {m}
          [] key = "s" -> {[m EXCEPT !.viewState = ViewProductList]}
          [] OTHER -> {m}

\* the address form takes the key; a submitted form has the address
\* confirmed and asks for the quote
AddressFormKeys(m, key) ==
    {IF f = "completed"
     THEN [m EXCEPT !.addressForm = f,
                    !.cmds = @ \cup {"createQuote"}]
     ELSE [m EXCEPT !.addressForm = f] :
     f \in FormUpdate(m.addressForm, key)}

\* the keys of the shipping rate selection
ShippingKeys(m, key) ==
    LET c == m.localCart
        rates == c.Quote.ShippingRates
    IN  CASE key = "up" ->
                IF m.shippingSelectedIdx > 0
                THEN {[m EXCEPT !.shippingSelectedIdx = @ - 1]}
                ELSE {m}
          [] key = "down" ->
                IF m.shippingSelectedIdx < Len(rates) - 1
                THEN {[m EXCEPT !.shippingSelectedIdx = @ + 1]}
                ELSE {m}
          [] key = "enter" ->
                IF Len(rates) > 0 /\ m.shippingSelectedIdx < Len(rates)
                THEN {[m EXCEPT !.localCart =
                          SelectShippingRate(c,
                              rates[m.shippingSelectedIdx + 1])]}
                ELSE {m}
          [] key = "n" ->
                IF GetSelectedShippingRate(c) # "" \/ ~ NeedsShipping(c.Quote)
                THEN {[m EXCEPT !.viewState = ViewPayment,
                                !.cmds = @ \cup {"loadPaymentGateways"}]}
                ELSE {m}
          [] OTHER -> {m}

\* a Quote view that hands the key to the address form before looking at it
handleQuoteKeysFormFirst(m, key, t) ==
    IF m.addressForm = "running"
    THEN AddressFormKeys(m, key)
    ELSE IF key = "esc"
    THEN {[m EXCEPT !.viewState = ViewCart, !.addressForm = "nil"]}
    ELSE {m}

handleQuoteKeys(m, key, t) ==
    IF key = "esc"
    THEN {[m EXCEPT !.viewState = ViewCart, !.addressForm = "nil"]}
    ELSE IF m.addressForm = "running"
    THEN AddressFormKeys(m, key)
    ELSE IF HasQuote(m.localCart, t)
    THEN ShippingKeys(m, key)
    ELSE {m}

handlePaymentKeys(m, key) ==
    CASE key = "esc" -> {[m EXCEPT !.viewState = ViewQuote]}
      [] key = "up" ->
            IF m.paymentSelectedIdx > 0
            THEN {[m EXCEPT !.paymentSelectedIdx = @ - 1]}
            ELSE {m}
      [] key = "down" ->
            IF m.paymentSelectedIdx < m.paymentGateways - 1
            THEN {[m EXCEPT !.paymentSelectedIdx = @ + 1]}
            ELSE {m}
      [] key = "enter" ->
            IF m.paymentGateways > 0
            THEN {[m EXCEPT !.viewState = ViewReview]}
            ELSE {m}
      [] OTHER -> {m}

handleReviewKeys(m, key, t) ==
    CASE key = "esc" -> {[m EXCEPT !.viewState = ViewPayment]}
      [] key \in {"enter", "p"} ->
            IF /\ ~ m.creatingOrder
               /\ m.paymentGateways > 0
               /\ HasQuote(m.localCart, t)
            THEN {[m EXCEPT !.creatingOrder = TRUE,
                            !.cmds = @ \cup {"createOrder"}]}
            ELSE {m}
      [] OTHER -> {m}

handleOrderConfirmationKeys(m, key) ==
    IF key \in {"enter", "esc", "q"}
    THEN {[m EXCEPT !.viewState = ViewProductList,
                    !.localCart = Clear(m.localCart)]}
    ELSE {m}

\* handleKeyMsg: the models the key can leave
handleKeyMsg(m, key, t) ==
    IF key = "q" /\ m.viewState = ViewProductList /\ ~ m.showSearch
    THEN {[m EXCEPT !.quit = TRUE]}
    ELSE CASE m.viewState = ViewProductList -> handleProductListKeys(m, key)
           [] m.viewState = ViewProductDetails ->
                handleProductDetailsKeys(m, key)
           [] m.viewState = ViewConfigurator -> handleConfiguratorKeys(m, key)
           [] m.viewState = ViewCart -> handleCartKeys(m, key)
           [] m.viewState = ViewQuote -> handleQuoteKeys(m, key, t)
           [] m.viewState = ViewPayment -> handlePaymentKeys(m, key)
           [] m.viewState = ViewReview -> handleReviewKeys(m, key, t)
           [] m.viewState = ViewOrderConfirmation ->
                handleOrderConfirmationKeys(m, key)

\* no more pieces in the cart than the largest quantity of the model
CartWithinBounds(c) == ItemCount(c.Items) <= MaxQty

\* Update with a tea.KeyMsg
KeyMsg(key) ==
    /\ ~ ui.quit
    /\ \E m \in handleKeyMsg(ui, key, now) :
          /\ CartWithinBounds(m.localCart)
          /\ Cardinality(m.cmds) <= MaxCmds
          /\ ui' = [m EXCEPT !.last = IF key = "esc"
                                       THEN EscIn(ui)
                                       ELSE NoEsc]
    /\ UNCHANGED <<now, server, cache, gos, hist>>

\* Update with errMsg (the loading flags, which only the views read, are
\* left out of the Model)
OnError(m) == [m EXCEPT !.creatingOrder = FALSE]

\* the end of Update: the form of the view sees the message too
OnForm(m) ==
    IF m.viewState = ViewConfigurator /\ m.configForm = "completed"
    THEN [m EXCEPT !.configCompleted = TRUE]
    ELSE m

\* Update with the message a command ends with
OnMessage(m, cmd, t) ==
    CASE cmd = "loadProducts" ->
            {[m EXCEPT !.products = ListedProducts], OnError(m)}
      [] cmd = "loadVariations" ->
            {LET n == [m EXCEPT !.productVariations = VariationsOf(1)]
             IN  IF n.selectedProduct # NoValue
                 THEN IF IsVariable(n.selectedProduct)
                      THEN initConfigurator(n)
                      ELSE n
                 ELSE n,
             OnError(m)}
      [] cmd = "createQuote" ->
            {[m EXCEPT !.localCart = SetQuote(m.localCart, q),
                       !.shippingSelectedIdx =
                           IF Len(q.ShippingRates) > 0 THEN 0 ELSE @] :
             q \in QuoteResponses} \cup {OnError(m)}
      [] cmd = "loadPaymentGateways" ->
            {[m EXCEPT !.paymentGateways = n] :
             n \in GatewayCounts} \cup {OnError(m)}
      [] cmd = "createOrder" ->
            IF m.localCart.Quote = NoValue
            THEN {OnError(m)}
            ELSE {[m EXCEPT !.creatingOrder = FALSE,
                            !.viewState = ViewOrderConfirmation,
                            !.localCart = Clear(m.localCart)],
                  OnError(m)}

\* a command ends and Update takes its message
Message(cmd) ==
    /\ ~ ui.quit
    /\ cmd \in ui.cmds
    /\ \E m \in OnMessage(ui, cmd, now) :
          ui' = [OnForm(m) EXCEPT !.cmds = @ \ {cmd}, !.last = NoEsc]
    /\ UNCHANGED <<now, server, cache, gos, hist>>

\* the client starts: NewModel and the command of Init
UInit ==
    /\ now = 0
    /\ ServerIdle
    /\ cache = NoValue
    /\ gos = NoValue
    /\ hist = NoValue
    /\ ui = NewModel

UNext ==
    \/ \E key \in KeyStrokes : KeyMsg(key)
    \/ \E cmd \in {"loadProducts", "loadVariations", "createQuote",
                   "loadPaymentGateways", "createOrder"} : Message(cmd)

UISpec == UInit /\ [][UNext]_vars

\* the views Esc is said to leave, each with the view one step back
EscViews ==
    {ViewProductDetails, ViewConfigurator, ViewCart, ViewQuote, ViewPayment,
     ViewReview}

OneStepBack(view) ==
    CASE view = ViewProductDetails -> ViewProductList
      [] view = ViewConfigurator -> ViewProductDetails
      [] view = ViewCart -> ViewProductList
      [] view = ViewQuote -> ViewCart
      [] view = ViewPayment -> ViewQuote
      [] view = ViewReview -> ViewPayment

\* C24: when the last message was the Esc key, the view is the one a step
\* back from the view it was pressed in (ProductDetails to ProductList,
\* Configurator to ProductDetails, Cart to ProductList, Quote to Cart,
\* Payment to Quote, Review to Payment), in no view is it a later view than
\* the one Esc was pressed in, and the cart has the items and the coupons
\* it had before the key.
C24_EscGoesBack ==
    ui.last.esc =>
        /\ ui.last.from \in EscViews =>
              ui.viewState = OneStepBack(ui.last.from)
        /\ ui.viewState <= ui.last.from
        /\ ui.localCart.Items = ui.last.cart.Items
        /\ ui.localCart.Coupons = ui.last.cart.Coupons

\* Esc was pressed in the Review view, with a line in the cart and the
\* order being created, and the view is Payment
C24_EscWhileCreatingOrder ==
    /\ ui.last.esc
    /\ ui.last.from = ViewReview
    /\ ui.viewState = ViewPayment
    /\ ui.localCart.Items # <<>>
    /\ ui.creatingOrder
    /\ "createOrder" \in ui.cmds

\* ------------------------------------------------------- the coupon checks
\* the coupon of the request under study
CouponAsked == WC_Coupon(wc_format_coupon_code(rin.code))

\* the request under study was validated for a coupon that exists and is
\* published, so that its expiry was looked at
ExpiryChecked ==
    /\ Validated
    /\ CouponAsked.id # 0
    /\ CouponAsked.status = "publish"

\* the validation rejects the coupon as expired
RejectedAsExpired(validation) ==
    ~ validation.valid /\ validation.reason = "coupon_expired"

\* C25: a coupon whose date_expires is set is rejected as expired whenever
\* date_expires <= now, the instant date_expires = now included; it is not
\* rejected as expired when date_expires > now or when it has no expiry
\* date.
C25_ExpiredAtOrBeforeNow ==
    ExpiryChecked =>
        (RejectedAsExpired(rout.validation) <=>
            /\ CouponAsked.date_expires # NoValue
            /\ CouponAsked.date_expires[1] <= now)

\* ------------------------------------------- coupons with restricted products
\* the coupons that restrict or exclude products, and one that does neither
RestrictionCodes == {"perunit", "only9", "cat20", "nocat10", "cat10no2", "five"}

\* lines for product 1, its variation 2, and product 2 on its own
RestrictionItems ==
    {[product_id |-> p, variation_id |-> v, quantity |-> q] :
        p \in {1, 2}, v \in {0, 2}, q \in {1, MaxQty}}

RestrictionRequests ==
    [code : RestrictionCodes, items : SeqsUpTo(RestrictionItems, MaxItems)]

\* one coupon validation request for a cart of such lines
RestrictionInit ==
    /\ now = 0
    /\ products = InitialCatalog
    /\ tax_enabled = FALSE
    /\ transients = <<>>
    /\ next_quote = 0
    /\ qin = NoRequest
    /\ qout = NoValue
    /\ orders = <<>>
    /\ call = [w \in Workers |-> IdleCall]
    /\ ncalls = 0
    /\ nchanges = 0
    /\ gout = NoValue
    /\ rin \in RestrictionRequests
    /\ rout = NoValue
    /\ permit = NoValue
    /\ ClientIdle

RestrictionNext == ValidateCoupon(rin)

RestrictionSpec == RestrictionInit /\ [][RestrictionNext]_vars

\* the line is excluded: its product or its variation is an excluded
\* product, or its product is in an excluded category
Excluded(coupon, item) ==
    \/ item.product_id \in coupon.excluded_product_ids
    \/ item.variation_id \in coupon.excluded_product_ids
    \/ products[item.product_id].cats
          \cap coupon.excluded_product_categories # {}

\* the line matches the include lists
Included(coupon, item) ==
    \/ item.product_id \in coupon.product_ids
    \/ item.variation_id \in coupon.product_ids
    \/ products[item.product_id].cats \cap coupon.product_categories # {}

\* the coupon has an include list
Restricted(coupon) ==
    coupon.product_ids # {} \/ coupon.product_categories # {}

\* the validation rejects the coupon as not applicable
NotApplicable(validation) ==
    ~ validation.valid /\ validation.reason = "coupon_not_applicable"

\* the request under study was validated and its coupon passed the checks
\* made before the product restriction
RestrictionChecked == Validated /\ FailedChecks \cap (1..6) = {}

\* C26: a coupon with product_ids or product_categories is not_applicable
\* unless some line that is not excluded matches its include lists, so an
\* excluded line neither satisfies the restriction nor makes the coupon
\* invalid; a coupon with both include lists empty always passes the
\* restriction check (lines that name a product).
C26_ProductRestriction ==
    RestrictionChecked =>
        (NotApplicable(rout.validation) <=>
            /\ Restricted(CouponAsked)
            /\ ~ \E i \in 1..Len(rin.items) :
                    /\ ~ Excluded(CouponAsked, rin.items[i])
                    /\ Included(CouponAsked, rin.items[i]))

\* a restricted coupon was found valid for a cart with a line that matches
\* its include lists but is excluded, next to a line that is not
C26_ExcludedBesideIncluded ==
    /\ RestrictionChecked
    /\ rout.validation.valid
    /\ Restricted(CouponAsked)
    /\ \E i, j \in 1..Len(rin.items) :
          /\ Excluded(CouponAsked, rin.items[i])
          /\ Included(CouponAsked, rin.items[i])
          /\ ~ Excluded(CouponAsked, rin.items[j])
          /\ Included(CouponAsked, rin.items[j])

\* the line is eligible for the coupon: not excluded and, when the coupon
\* has an include list, matching it
Eligible(coupon, item) ==
    /\ ~ Excluded(coupon, item)
    /\ Restricted(coupon) => Included(coupon, item)

\* amount x quantity over the eligible lines, in minor units
RECURSIVE EligibleDiscount(_, _)
EligibleDiscount(coupon, line_items) ==
    IF line_items = <<>>
    THEN 0
    ELSE (IF Eligible(coupon, Head(line_items))
          THEN (coupon.amount \div (Den \div Multiplier))
                   * Head(line_items).quantity
          ELSE 0)
         + EligibleDiscount(coupon, Tail(line_items))

\* C27: the discount of a valid fixed_product coupon is amount x quantity
\* summed over exactly the eligible lines (not excluded by product id,
\* variation id or excluded category and, when the coupon has an include
\* list, matching it); the other lines contribute nothing.
C27_FixedProductOverEligibleLines ==
    (/\ Validated
     /\ rout.validation.valid
     /\ CouponAsked.discount_type = "fixed_product") =>
        rout.validation.discount = EligibleDiscount(CouponAsked, rin.items)

\* ------------------------------------------------------ percent discounts
\* n / d rounded to the nearest integer, a tie going to the even one
RoundHalfEven(n, d) ==
    LET q == n \div d
        r == n % d
    IN  IF 2 * r < d THEN q
        ELSE IF 2 * r > d THEN q + 1
        ELSE IF q % 2 = 0 THEN q ELSE q + 1

\* the cart total of the request under study, in minor units
SubtotalMinor == rout.cart_total \div (Den \div Multiplier)

\* the percentage of the coupon of the request under study
Percent == CouponAsked.amount \div Den

\* C28: the discount of a valid percent coupon (with no cap on the discount)
\* is subtotal x percent / 100 rounded to whole minor units, half a minor
\* unit going to the even minor unit.
C28_PercentHalfEven ==
    (/\ Validated
     /\ rout.validation.valid
     /\ CouponAsked.discount_type = "percent"
     /\ CouponAsked.maximum_amount = 0) =>
        rout.validation.discount = RoundHalfEven(SubtotalMinor * Percent, 100)

\* ------------------------------------------------ rejected quote requests
\* the rejections of create_quote
QuoteRejections ==
    {"eva_invalid_items", "eva_invalid_product", "eva_product_not_found",
     "eva_product_not_purchasable"}

\* the lines of the request that come before the first line turned away
LinesBeforeRejection ==
    {i \in 1..Len(qin.items) :
        \A j \in 1..i : process_line_item(products, qin.items[j]).error = ""}

\* C29: when create_quote has rejected the request (invalid items, invalid
\* product, product not found or not purchasable) nothing has been written
\* to the quote store and no quote id has been used, also when lines before
\* the rejected one had been resolved.
C29_RejectionWritesNothing ==
    (Posted /\ qout.error \in QuoteRejections) =>
        /\ transients = <<>>
        /\ next_quote = 0

\* a request was rejected at its second line for a product that cannot be
\* purchased, after its first line had been resolved
C29_RejectedAtSecondLine ==
    /\ Posted
    /\ qout.error = "eva_product_not_purchasable"
    /\ Len(qin.items) = 2
    /\ LinesBeforeRejection = {1}
    /\ transients = <<>>

\* ====================================================================
\* the local cart, called directly
\* ====================================================================

\* the Meta of an item: nil, made and empty, a grind, an empty grind, an
\* empty note
CartMetas ==
    {NilMeta, MakeMeta,
     [nil |-> FALSE, pairs |-> {<<"grind", "Fine">>}],
     [nil |-> FALSE, pairs |-> {<<"grind", "">>}],
     [nil |-> FALSE, pairs |-> {<<"note", "">>}]}

\* the items a caller may add
CartItems ==
    [ProductID : {1, 2}, VariationID : {0, 11}, Quantity : {1}, Meta : CartMetas]

CartAddItem(item) ==
    /\ ui.calls < MaxOps
    /\ ui' = [cart |-> AddItem(ui.cart, item),
              calls |-> ui.calls + 1,
              last |-> [op |-> "AddItem", item |-> item, before |-> ui.cart]]
    /\ UNCHANGED <<now, server, cache, gos, hist>>

CartUpdateQuantity(index, quantity) ==
    /\ ui.calls < MaxOps
    /\ ui' = [cart |-> UpdateQuantity(ui.cart, index, quantity).cart,
              calls |-> ui.calls + 1,
              last |-> [op |-> "UpdateQuantity", item |-> NoValue,
                        before |-> ui.cart]]
    /\ UNCHANGED <<now, server, cache, gos, hist>>

CartRemoveItem(index) ==
    /\ ui.calls < MaxOps
    /\ ui' = [cart |-> RemoveItem(ui.cart, index).cart,
              calls |-> ui.calls + 1,
              last |-> [op |-> "RemoveItem", item |-> NoValue,
                        before |-> ui.cart]]
    /\ UNCHANGED <<now, server, cache, gos, hist>>

\* NewLocalCart, before any call
LInit ==
    /\ now = 0
    /\ ServerIdle
    /\ cache = NoValue
    /\ gos = NoValue
    /\ hist = NoValue
    /\ ui = [cart |-> NewLocalCart, calls |-> 0,
             last |-> [op |-> "", item |-> NoValue, before |-> NewLocalCart]]

LNext ==
    \/ \E item \in CartItems : CartAddItem(item)
    \/ \E index \in -1..MaxOps, quantity \in 0..MaxQty :
          CartUpdateQuantity(index, quantity)
    \/ \E index \in -1..MaxOps : CartRemoveItem(index)

LocalCartSpec == LInit /\ [][LNext]_vars

\* two Metas hold the same pairs: a nil Meta equals an empty one
SameMeta(a, b) == a.pairs = b.pairs

\* two lines have the same (ProductID, VariationID, Meta) triple
SameTriple(x, y) ==
    /\ x.ProductID = y.ProductID
    /\ x.VariationID = y.VariationID
    /\ SameMeta(x.Meta, y.Meta)

\* C30: after any sequence of AddItem, UpdateQuantity and RemoveItem calls
\* no two lines of the cart have the same (ProductID, VariationID, Meta)
\* triple, a nil Meta being equal to an empty one; and an AddItem of an item
\* whose triple is in the cart appends no line and adds the item's quantity
\* to the line of that triple.
C30_LineIdentity ==
    /\ \A i, j \in 1..Len(ui.cart.Items) :
          SameTriple(ui.cart.Items[i], ui.cart.Items[j]) => i = j
    /\ (/\ ui.last.op = "AddItem"
        /\ \E i \in 1..Len(ui.last.before.Items) :
              SameTriple(ui.last.before.Items[i], ui.last.item)) =>
          /\ Len(ui.cart.Items) = Len(ui.last.before.Items)
          /\ \A i \in 1..Len(ui.cart.Items) :
                ui.cart.Items[i].Quantity =
                    ui.last.before.Items[i].Quantity +
                    (IF SameTriple(ui.last.before.Items[i], ui.last.item)
                     THEN ui.last.item.Quantity
                     ELSE 0)

\* an item with a nil Meta was added to a cart that held its triple with an
\* empty Meta, and the line has the quantity of both
C30_NilMetaJoinsEmptyMeta ==
    /\ ui.last.op = "AddItem"
    /\ ui.last.item.Meta = NilMeta
    /\ Len(ui.cart.Items) = 1
    /\ ui.cart.Items[1].Meta = MakeMeta
    /\ ui.cart.Items[1].Quantity = 2

\* ====================================================================
\* the local cart, every operation
\* ====================================================================

MaxCartOps == 4    \* operations on the local cart in a run

\* the items added: two products, one or two units
OpItems ==
    [ProductID : {1, 2}, VariationID : {0}, Quantity : {1, 2}, Meta : {NilMeta}]

OpCodes == {"save10", "five"}

OpRates == {"flat_rate:1", "pickup"}

\* one operation: the cart it leaves, and a record of the call
CartOp(op, arg, after) ==
    /\ ui.calls < MaxCartOps
    /\ ui' = [cart |-> after,
              calls |-> ui.calls + 1,
              last |-> [op |-> op, arg |-> arg, before |-> ui.cart]]
    /\ UNCHANGED <<now, server, cache, gos, hist>>

OpAddItem(item) == CartOp("AddItem", item, AddItem(ui.cart, item))

OpUpdateQuantity(index, quantity) ==
    CartOp("UpdateQuantity", [index |-> index, quantity |-> quantity],
           UpdateQuantity(ui.cart, index, quantity).cart)

OpRemoveItem(index) ==
    CartOp("RemoveItem", [index |-> index], RemoveItem(ui.cart, index).cart)

OpClear == CartOp("Clear", NoValue, Clear(ui.cart))

OpAddCoupon(code) == CartOp("AddCoupon", code, AddCoupon(ui.cart, code))

OpRemoveCoupon(code) ==
    CartOp("RemoveCoupon", code, RemoveCoupon(ui.cart, code))

OpSetQuote(quote) == CartOp("SetQuote", quote, SetQuote(ui.cart, quote))

OpSelectShippingRate(rateID) ==
    CartOp("SelectShippingRate", rateID, SelectShippingRate(ui.cart, rateID))

OpMoveUp == CartOp("MoveUp", NoValue, MoveUp(ui.cart))

OpMoveDown == CartOp("MoveDown", NoValue, MoveDown(ui.cart))

\* NewLocalCart, before any operation
OInit ==
    /\ now = 0
    /\ ServerIdle
    /\ cache = NoValue
    /\ gos = NoValue
    /\ hist = NoValue
    /\ ui = [cart |-> NewLocalCart, calls |-> 0,
             last |-> [op |-> "", arg |-> NoValue, before |-> NewLocalCart]]

ONext ==
    \/ \E item \in OpItems : OpAddItem(item)
    \/ \E index \in -1..2, quantity \in -1..2 :
          OpUpdateQuantity(index, quantity)
    \/ \E index \in -1..2 : OpRemoveItem(index)
    \/ OpClear
    \/ \E code \in OpCodes : OpAddCoupon(code)
    \/ \E code \in OpCodes : OpRemoveCoupon(code)
    \/ \E quote \in QuoteResponses : OpSetQuote(quote)
    \/ \E rateID \in OpRates : OpSelectShippingRate(rateID)
    \/ OpMoveUp
    \/ OpMoveDown

CartOpsSpec == OInit /\ [][ONext]_vars

\* the index of the last call was one of a line of the cart it was made on
ValidIndex == ui.last.arg.index \in 0..(Len(ui.last.before.Items) - 1)

\* the code of the last call was among the coupons of the cart
PresentCode ==
    \E i \in 1..Len(ui.last.before.Coupons) :
        ui.last.before.Coupons[i] = ui.last.arg

\* the last call was one that changes the items or the coupons
ChangedCart ==
    \/ ui.last.op \in {"AddItem", "Clear"}
    \/ ui.last.op \in {"UpdateQuantity", "RemoveItem"} /\ ValidIndex
    \/ ui.last.op = "AddCoupon" /\ ~ PresentCode
    \/ ui.last.op = "RemoveCoupon" /\ PresentCode

\* the last call was one that changes nothing
ChangedNothing ==
    \/ ui.last.op \in {"UpdateQuantity", "RemoveItem"} /\ ~ ValidIndex
    \/ ui.last.op = "AddCoupon" /\ PresentCode
    \/ ui.last.op = "RemoveCoupon" /\ ~ PresentCode

\* C31: every local-cart operation that changes the items or the coupons
\* (AddItem, UpdateQuantity and RemoveItem on a valid index, AddCoupon of a
\* code not yet present, RemoveCoupon of a present code, Clear) leaves
\* Quote = nil and SelectedShippingRateID empty; an operation that changes
\* nothing (index out of range, duplicate coupon, absent coupon) leaves the
\* quote and the selected rate as they were; SetQuote clears the selected
\* rate.
C31_ChangeInvalidatesQuote ==
    /\ ChangedCart =>
          /\ ui.cart.Quote = NoValue
          /\ ui.cart.SelectedShippingRateID = ""
    /\ ChangedNothing =>
          /\ ui.cart.Quote = ui.last.before.Quote
          /\ ui.cart.SelectedShippingRateID =
                ui.last.before.SelectedShippingRateID
    /\ ui.last.op = "SetQuote" =>
          /\ ui.cart.Quote = ui.last.arg
          /\ ui.cart.SelectedShippingRateID = ""

\* a coupon was added to a cart that held a quote and a selected rate, and
\* both are gone
C31_CouponAddedToQuotedCart ==
    /\ ui.last.op = "AddCoupon"
    /\ ~ PresentCode
    /\ ui.last.before.Quote # NoValue
    /\ ui.last.before.SelectedShippingRateID # ""
    /\ ui.cart.Quote = NoValue
    /\ ui.cart.SelectedShippingRateID = ""

\* C38: after any sequence of local-cart operations SelectedIdx >= 0 and,
\* when the cart is not empty, SelectedIdx < the number of lines, so that
\* GetSelectedItem returns a line whenever the cart is not empty.
C38_SelectionWithinCart ==
    /\ ui.cart.SelectedIdx >= 0
    /\ ~ IsEmpty(ui.cart) =>
          /\ ui.cart.SelectedIdx < Len(ui.cart.Items)
          /\ HasSelectedItem(ui.cart)

\* the selected last line of a cart of two lines was removed, and the
\* selection is on the line that is left
C38_SelectedLastLineRemoved ==
    /\ ui.last.op = "RemoveItem"
    /\ Len(ui.last.before.Items) = 2
    /\ ui.last.before.SelectedIdx = 1
    /\ ui.last.arg.index = 1
    /\ Len(ui.cart.Items) = 1
    /\ ui.cart.SelectedIdx = 0

\* C39: after any sequence of AddItem calls with a quantity >= 1,
\* UpdateQuantity calls and RemoveItem calls every line of the cart has
\* Quantity >= 1, an UpdateQuantity with a quantity <= 0 removing the line;
\* so every item of a quote request built from the cart has quantity >= 1.
C39_QuantityAtLeastOne ==
    /\ \A i \in 1..Len(ui.cart.Items) : ui.cart.Items[i].Quantity >= 1
    /\ \A i \in 1..Len(ToQuoteItems(ui.cart)) :
          ToQuoteItems(ui.cart)[i].quantity >= 1
    /\ (/\ ui.last.op = "UpdateQuantity"
        /\ ValidIndex
        /\ ui.last.arg.quantity <= 0) =>
          ui.cart.Items = Without(ui.last.before.Items, ui.last.arg.index)

\* UpdateQuantity was called with quantity 0 on the first of two lines, and
\* the cart holds the other line alone
C39_ZeroQuantityRemovesLine ==
    /\ ui.last.op = "UpdateQuantity"
    /\ ui.last.arg = [index |-> 0, quantity |-> 0]
    /\ Len(ui.last.before.Items) = 2
    /\ ui.cart.Items = <<ui.last.before.Items[2]>>

\* ====================================================================
\* the quote store and the stock under create_order
\* ====================================================================

\* the call of worker w returns an order it has created
ReturnsCreated(w) ==
    /\ call[w].pc # "done"
    /\ call'[w].pc = "done"
    /\ call'[w].result.error = ""
    /\ call'[w].result.created

\* the errors a create_order call may return
OrderErrors ==
    {"eva_missing_field", "eva_quote_expired", "eva_missing_shipping",
     "eva_invalid_shipping_rate", "eva_order_creation_failed"} \cup StockErrors

\* C32: a rejected create_order leaves the quote store unchanged: no step of
\* a call that fails with a missing field, quote_expired, a shipping-rate
\* error, a stock error or order_creation_failed deletes or modifies a
\* stored quote, so the same quote_id can be used again; a quote leaves the
\* store only in the step that returns a created order of that quote.
C32_RejectionKeepsQuote ==
    [][/\ \A w \in Workers :
             (call'[w] # call[w] /\ ~ ReturnsCreated(w)) =>
                 transients' = transients
       /\ \A w \in Workers :
             (/\ call'[w].pc = "done"
              /\ call[w].pc # "done"
              /\ call'[w].result.error # "") =>
                 /\ call'[w].result.error \in OrderErrors
                 /\ transients' = transients
       /\ \A q \in DOMAIN transients :
             (q \notin DOMAIN transients' \/ transients'[q] # transients[q]) =>
                 \E w \in Workers :
                     /\ ReturnsCreated(w)
                     /\ call[w].data.quote_id = q
                     /\ orders[call[w].order_id].quote_id = q]_vars

\* a call was rejected for its missing shipping rate and the other call
\* has made an order of the same quote
C32_QuoteUsedAfterRejection ==
    /\ call["w1"].pc = "done"
    /\ call["w1"].result.error = "eva_missing_shipping"
    /\ call["w2"].pc = "done"
    /\ call["w2"].result.error = ""
    /\ call["w2"].result.created
    /\ call["w2"].data.quote_id = call["w1"].data.quote_id

\* worker w takes the step that reduces the stock
ReducesStock(w) == call[w].pc = "reduce" /\ call'[w].pc # "reduce"

\* the order of worker w is saved with its lines, its status and its meta
Saved(w) ==
    LET order == orders[call[w].order_id]
        data == call[w].data
    IN  /\ Len(order.items) = Len(call[w].quote_data.line_items_raw)
        /\ order.status = get_initial_order_status(data.payment_method, data)
        /\ order.idempotency_key = data.idempotency_key
        /\ order.quote_id = data.quote_id
        /\ order.created_via = "eva-checkout-api"

\* C33: stock is reduced exactly once for each created order, and only after
\* the order with its lines, status and idempotency meta has been saved; a
\* create_order call that returns created = false (idempotent replay) or an
\* error reduces no stock.
C33_StockReducedOnce ==
    [][/\ \A w \in Workers :
             ReducesStock(w) =>
                 /\ Saved(w)
                 /\ ~ orders[call[w].order_id].stock_reduced
                 /\ orders'[call[w].order_id].stock_reduced
                 /\ products' =
                       ReduceStockLevels(products, orders[call[w].order_id].items)
       /\ products' # products =>
             \/ nchanges' # nchanges
             \/ \E w \in Workers : ReducesStock(w)
       /\ \A i \in DOMAIN orders :
             orders'[i].stock_reduced # orders[i].stock_reduced =>
                 \E w \in Workers : ReducesStock(w) /\ call[w].order_id = i
       /\ \A w \in Workers :
             call'[w].pc = "done" =>
                 IF call'[w].result.error = "" /\ call'[w].result.created
                 THEN /\ "stock_reduce" \in call'[w].work
                      /\ orders'[call'[w].order_id].stock_reduced
                 ELSE "stock_reduce" \notin call'[w].work]_vars

\* an order of 1 + MaxQty units was created and then replayed, and the
\* stock is short of those units once
C33_ReplayTakesNoStock ==
    /\ call["w1"].pc = "done"
    /\ call["w1"].result.error = ""
    /\ call["w2"].pc = "done"
    /\ call["w2"].result.error = ""
    /\ call["w1"].result.created # call["w2"].result.created
    /\ call["w1"].result.order_id = call["w2"].result.order_id
    /\ nchanges = 0
    /\ products[1].stock_quantity =
          <<InitialCatalog[1].stock_quantity[1] - (1 + MaxQty)>>

\* ====================================================================
\* two create_order calls on two quotes of the same product
\* ====================================================================

\* the quotes issued before the calls: ids 1 and 2
StockQuoteIds == {generate_quote_id(1), generate_quote_id(2)}

\* the request of such a quote: q units of product 1
StockQuoteRequest(q) ==
    [items |-> <<[product_id |-> 1, variation_id |-> 0, quantity |-> q,
                  meta |-> NoValue]>>,
     coupons |-> <<>>, shipping_address |-> [country |-> "US"],
     customer_id |-> 0]

\* what store_quote wrote for quote k of q units
StockQuoteEntry(k, q) ==
    [value |->
        [quote |->
            [quote_id |-> k,
             expires_at |-> QUOTE_TTL,
             line_items |->
                 <<[product_id |-> 1, variation_id |-> 0, quantity |-> q,
                    unit_price |-> InitialCatalog[1].price,
                    line_total |-> q * InitialCatalog[1].price,
                    line_tax |-> 0, meta |-> NoValue]>>,
             coupons |-> <<>>,
             shipping_rates |->
                 <<[rate_id |-> "flat_rate:1", method_id |-> "flat_rate",
                    instance_id |-> 1, label |-> "Flat rate", cost |-> 500,
                    tax |-> 0],
                   [rate_id |-> "free_shipping:2", method_id |-> "free_shipping",
                    instance_id |-> 2, label |-> "Free shipping", cost |-> 0,
                    tax |-> 0]>>,
             totals |-> [subtotal |-> q * InitialCatalog[1].price, discount |-> 0,
                         shipping |-> 0, tax |-> 0,
                         total |-> q * InitialCatalog[1].price],
             stock_status |->
                 <<[product_id |-> 1,
                    available |-> InitialCatalog[1].stock_quantity[1],
                    requested |-> q, ok |-> TRUE]>>],
         line_items_raw |->
             <<[product_id |-> 1, variation_id |-> 0, quantity |-> q,
                unit_price |-> FloatOfMinor(InitialCatalog[1].price),
                line_total |-> FloatOfMinor(q * InitialCatalog[1].price),
                meta |-> NoValue, tax_class |-> ""]>>,
         shipping_address |-> [country |-> "US"],
         coupon_codes |-> <<>>,
         customer_id |-> 0],
     timeout |-> QUOTE_TTL]

\* the entries are those create_quote and store_quote leave at time 0
StockQuotesAsIssued ==
    \A k \in StockQuoteIds, q \in 1..MaxStock :
        StockQuoteEntry(k, q) =
            store_quote(<<>>, k,
                        create_quote(StockQuoteRequest(q), InitialCatalog,
                                     FALSE, 0, k - 1).data,
                        0)[k]

\* one order request for each quote, with a rate of the quote
StockOrderRequests ==
    [quote_id : StockQuoteIds,
     idempotency_key : {""},
     shipping_rate_id : {"flat_rate:1"},
     billing_address : {[country |-> "US"]},
     payment_method : {"cod"},
     set_paid : {FALSE}]

\* two quotes are stored, each for some units of product 1 that the stock
\* holds
VInit ==
    /\ now = 0
    /\ products = InitialCatalog
    /\ tax_enabled = FALSE
    /\ \E q1, q2 \in 1..MaxStock :
          transients = [k \in StockQuoteIds |->
                           StockQuoteEntry(k, IF k = generate_quote_id(1)
                                              THEN q1 ELSE q2)]
    /\ next_quote = 2
    /\ qin = NoRequest
    /\ qout = NoValue
    /\ orders = <<>>
    /\ call = [w \in Workers |-> IdleCall]
    /\ ncalls = 0
    /\ nchanges = 0
    /\ gout = NoValue
    /\ rin = NoValue
    /\ rout = NoValue
    /\ permit = NoValue
    /\ ClientIdle

VNext ==
    \/ \E w \in Workers, data \in StockOrderRequests : Begin(w, data)
    \/ \E w \in Workers : GetQuoteData(w)
    \/ \E w \in Workers : ValidateStock(w)
    \/ \E w \in Workers : InsertOrder(w)
    \/ \E w \in Workers : SaveOrder(w)
    \/ \E w \in Workers : ReduceStock(w)
    \/ \E w \in Workers : DeleteQuote(w)

OversellSpec == VInit /\ [][VNext]_vars

\* the units of product p in the lines of an order
RECURSIVE UnitsOf(_, _)
UnitsOf(p, items) ==
    IF items = <<>> THEN 0
    ELSE (IF Head(items).product_id = p THEN Head(items).quantity ELSE 0)
         + UnitsOf(p, Tail(items))

\* the ids of the orders that calls have returned as created
CreatedOrders ==
    {call[w].result.order_id : w \in {v \in Workers : Created(v)}}

\* the units of product p in all the created orders
RECURSIVE UnitsSold(_, _)
UnitsSold(p, ids) ==
    IF ids = {} THEN 0
    ELSE LET i == CHOOSE j \in ids : TRUE
         IN  UnitsOf(p, orders[i].items) + UnitsSold(p, ids \ {i})

\* C34: no oversell under concurrency: for a product that manages stock and
\* does not allow backorders, the quantities of that product in all orders
\* created by concurrent create_order calls on different quotes never sum to
\* more than the stock that was available before those calls.
C34_NoOversell ==
    StockQuotesAsIssued =>
        \A p \in StockedProducts :
            ~ InitialCatalog[p].backorders =>
                /\ UnitsSold(p, CreatedOrders)
                      <= InitialCatalog[p].stock_quantity[1]
                /\ products[p].stock_quantity[1] >= 0

\* ====================================================================
\* the checkout of the terminal client, with its commands in flight
\* ====================================================================

MaxFlight == 2     \* commands of the client in flight during the checkout

MaxAsked == 2      \* quotes the client asks for during the checkout

\* the keys of the checkout
CheckoutKeys == {"esc", "enter", "p", "o", "+", "n"}

\* the shipping rates a quote may list
RateLists == {<<"flat_rate:1">>, <<>>}

\* the session when the customer has configured product 2, added it and
\* stands in the cart view: no command runs, no quote was asked for, no
\* order request was sent
CheckoutStart ==
    [viewState |-> ViewCart,
     products |-> ListedProducts,
     showSearch |-> FALSE,
     selectedProduct |-> [ID |-> 2, Type |-> "simple",
                          Attributes |-> {"Grind Size"}],
     productVariations |-> {},
     selectedVariation |-> 0,
     selectedGrindSize |-> "",
     configForm |-> "completed",
     configCompleted |-> TRUE,
     localCart |-> [NewLocalCart EXCEPT
                       !.Items = <<[ProductID |-> 2, VariationID |-> 0,
                                    Quantity |-> 1, Meta |-> MakeMeta]>>],
     shippingSelectedIdx |-> 0,
     paymentGateways |-> 0,
     paymentSelectedIdx |-> 0,
     addressForm |-> "nil",
     creatingOrder |-> FALSE,
     quit |-> FALSE,
     cmds |-> {},
     last |-> NoEsc,
     flight |-> <<>>,
     asked |-> 0,
     sent |-> {}]

\* the command a handler returns: a closure over a copy of the Model, whose
\* localCart is a pointer to the one cart of the session.  Commands that
\* read the cart have not run yet; n numbers the quote requests.
NewCommand(kind, m, n) ==
    [kind |-> kind,
     ran |-> kind \notin {"createQuote", "createOrder"},
     req |-> NoValue,
     n |-> n,
     paymentSelectedIdx |-> m.paymentSelectedIdx,
     paymentGateways |-> m.paymentGateways]

\* the request the closure of createQuote builds from the cart
QuoteRequestOf(c) == ToQuoteRequest(c, [country |-> "US"])

\* the request the closure of createOrder builds from the cart and from its
\* copy of the payment selection
OrderRequestOf(cmd, c) ==
    [QuoteID |-> c.Quote.QuoteID,
     IdempotencyKey |-> <<"order", c.Quote.QuoteID, cmd.paymentSelectedIdx>>,
     ShippingRateID |-> c.SelectedShippingRateID,
     PaymentMethod |-> IF cmd.paymentGateways > 0
                          /\ cmd.paymentSelectedIdx < cmd.paymentGateways
                       THEN cmd.paymentSelectedIdx
                       ELSE "cod"]

\* Update with tea.KeyMsg: the handler of the view takes the key, and the
\* command it returns, if any, is started
Press(key) ==
    /\ ~ ui.quit
    /\ \E m \in handleKeyMsg(ui, key, now) :
          LET quotes == IF "createQuote" \in m.cmds THEN 1 ELSE 0
              started == [i \in 1..Cardinality(m.cmds) |->
                             NewCommand(CHOOSE k \in m.cmds : TRUE, m,
                                        ui.asked + quotes)]
          IN  /\ Cardinality(m.cmds) <= 1
              /\ Len(ui.flight) + Len(started) <= MaxFlight
              /\ ui.asked + quotes <= MaxAsked
              /\ CartWithinBounds(m.localCart)
              /\ ui' = [m EXCEPT !.cmds = {},
                                 !.flight = ui.flight \o started,
                                 !.asked = ui.asked + quotes]
    /\ UNCHANGED <<now, server, cache, gos, hist>>

\* the goroutine of command i runs its closure up to the call of the
\* server: createQuote and createOrder read the cart as it is then;
\* createOrder without a quote calls no server
Send(i) ==
    /\ ~ ui.quit
    /\ i \in 1..Len(ui.flight)
    /\ ~ ui.flight[i].ran
    /\ LET cmd == ui.flight[i]
           c == ui.localCart
       IN  IF cmd.kind = "createQuote"
           THEN ui' = [ui EXCEPT !.flight[i].ran = TRUE,
                                 !.flight[i].req = QuoteRequestOf(c)]
           ELSE IF c.Quote = NoValue
           THEN ui' = [ui EXCEPT !.flight[i].ran = TRUE]
           ELSE ui' = [ui EXCEPT
                          !.flight[i].ran = TRUE,
                          !.flight[i].req = OrderRequestOf(cmd, c),
                          !.sent = @ \cup {[req |-> OrderRequestOf(cmd, c),
                                            quote |-> c.Quote,
                                            at |-> now]}]
    /\ UNCHANGED <<now, server, cache, gos, hist>>

\* the messages command cmd may end with at time t
MessagesOf(cmd, t) ==
    {[type |-> "errMsg"]} \cup
    CASE cmd.kind = "loadProducts" ->
            {[type |-> "productsLoadedMsg", products |-> ListedProducts]}
      [] cmd.kind = "loadVariations" ->
            {[type |-> "variationsLoadedMsg", variations |-> VariationsOf(1)]}
      [] cmd.kind = "createQuote" ->
            {[type |-> "quoteCreatedMsg",
              quote |-> [QuoteID |-> cmd.n,
                         ExpiresAt |-> t + QUOTE_TTL,
                         ShippingRates |-> rates,
                         LineItems |-> cmd.req.items,
                         Coupons |-> cmd.req.coupons]] : rates \in RateLists}
      [] cmd.kind = "loadPaymentGateways" ->
            {[type |-> "paymentGatewaysLoadedMsg", gateways |-> n] :
                n \in GatewayCounts}
      [] cmd.kind = "createOrder" ->
            IF cmd.req = NoValue
            THEN {}
            ELSE {[type |-> "orderCreatedMsg"]}

\* Update with the message of a command
UpdateMsg(m, msg) ==
    CASE msg.type = "productsLoadedMsg" -> [m EXCEPT !.products = msg.products]
      [] msg.type = "variationsLoadedMsg" ->
            LET n == [m EXCEPT !.productVariations = msg.variations]
            IN  IF n.selectedProduct # NoValue
                THEN IF IsVariable(n.selectedProduct)
                     THEN initConfigurator(n)
                     ELSE n
                ELSE n
      [] msg.type = "quoteCreatedMsg" ->
            [m EXCEPT !.localCart = SetQuote(m.localCart, msg.quote),
                      !.shippingSelectedIdx =
                          IF Len(msg.quote.ShippingRates) > 0 THEN 0 ELSE @]
      [] msg.type = "paymentGatewaysLoadedMsg" ->
            [m EXCEPT !.paymentGateways = msg.gateways]
      [] msg.type = "orderCreatedMsg" ->
            [m EXCEPT !.creatingOrder = FALSE,
                      !.viewState = ViewOrderConfirmation,
                      !.localCart = Clear(m.localCart)]
      [] msg.type = "errMsg" -> [m EXCEPT !.creatingOrder = FALSE]

\* the flight without its i-th command
Landed(flight, i) ==
    [j \in 1..(Len(flight) - 1) |-> IF j < i THEN flight[j] ELSE flight[j + 1]]

\* command i ends and Update takes its message
Deliver(i) ==
    /\ ~ ui.quit
    /\ i \in 1..Len(ui.flight)
    /\ ui.flight[i].ran
    /\ \E msg \in MessagesOf(ui.flight[i], now) :
          ui' = [OnForm(UpdateMsg(ui, msg)) EXCEPT
                    !.flight = Landed(ui.flight, i)]
    /\ UNCHANGED <<now, server, cache, gos, hist>>

CheckoutInit ==
    /\ now = 0
    /\ ServerIdle
    /\ cache = NoValue
    /\ gos = NoValue
    /\ hist = NoValue
    /\ ui = CheckoutStart

CheckoutNext ==
    \/ \E key \in CheckoutKeys : Press(key)
    \/ \E i \in 1..MaxFlight : Send(i)
    \/ \E i \in 1..MaxFlight : Deliver(i)

CheckoutSpec == CheckoutInit /\ [][CheckoutNext]_vars

\* C35: whenever the local cart holds a quote, that quote was requested for
\* the cart's current items and coupons; also when a quote response arrives
\* after the user has left the quote view and changed the cart, and when two
\* quote requests are in flight and their responses arrive in either order.
C35_QuoteMatchesCart ==
    ui.localCart.Quote # NoValue =>
        /\ ui.localCart.Quote.LineItems = ToQuoteItems(ui.localCart)
        /\ ui.localCart.Quote.Coupons = ui.localCart.Coupons

\* C36: whenever the terminal sends a create-order request, the local cart
\* holds a quote that the client considers unexpired, the request's quote_id
\* is that quote's id, and if that quote lists shipping rates the request's
\* shipping_rate_id is the rate_id of one of them.
C36_OrderRequestMatchesQuote ==
    \A s \in ui.sent :
        /\ s.quote # NoValue
        /\ ~ IsExpired(s.quote, s.at)
        /\ s.req.QuoteID = s.quote.QuoteID
        /\ NeedsShipping(s.quote) =>
              GetShippingRate(s.quote, s.req.ShippingRateID) # ""

\* the create-order requests sent and not yet answered
OrdersInFlight ==
    {i \in 1..Len(ui.flight) :
        /\ ui.flight[i].kind = "createOrder"
        /\ ui.flight[i].ran
        /\ ui.flight[i].req # NoValue}

\* C37: at most one create-order request is in flight per terminal session;
\* and the requests sent for the same quote with the same payment selection
\* carry the same idempotency key.
C37_OneOrderInFlight ==
    /\ Cardinality(OrdersInFlight) <= 1
    /\ \A a, b \in ui.sent :
          (/\ a.req.QuoteID = b.req.QuoteID
           /\ a.req.PaymentMethod = b.req.PaymentMethod) =>
              a.req.IdempotencyKey = b.req.IdempotencyKey

====
